---- MODULE Spec2Model ----
(***************************************************************************)
(* Conversation context and delivery pipeline of the time-capsule server:  *)
(* the chat routes (routes/chat.py), the chat store (db.py), the LLM       *)
(* client (utils/llm_client.py) and the rate limiter (app.py).             *)
(*                                                                         *)
(* Texts are sequences of symbols.  A symbol stands for a fixed piece of   *)
(* text ("Error:", a word, a blank); startswith, "in", strip and slicing   *)
(* work on symbols.  A symbol "zh:..." stands for the Chinese text of the  *)
(* source, named by its English meaning.                                   *)
(***************************************************************************)
EXTENDS Integers, Sequences, FiniteSets, TLC

VARIABLES
    now,                 \* wall clock, seconds
    variant,             \* which copy of the chat routes is deployed
    users,               \* table users
    chat_sessions,       \* table chat_sessions
    chat_messages,       \* table chat_messages, in insertion (rowid) order
    chat_cache,          \* routes/chat.py _chat_cache
    cache_expiry,        \* routes/chat.py _cache_expiry
    rate_limit_storage,  \* app.py rate_limit_storage
    uuid_counter,        \* number of uuid4() values handed out as session ids
    req,                 \* the requests in flight, one per connection
    checks               \* history: admission checks per client and route class in the current minute

vars == <<now, variant, users, chat_sessions, chat_messages, chat_cache,
          cache_expiry, rate_limit_storage, uuid_counter, req, checks>>

(*************************** bounds of the model ***************************)
MaxMessages == 4         \* rows appended to chat_messages in a run
PriorMessages == 11      \* rows an earlier run left in the session of SpecContext
MaxSessions == 2         \* session ids ever minted
MaxMinutes == 2          \* the clock stops after this many minutes
MaxCacheSessions == 1    \* sessions created in the specifications where time passes
MaxCacheMinutes == 6     \* the clock of SpecExpiry stops after this many minutes
MaxOverLimit == 2        \* admission checks modelled beyond a bucket's limit

Conns == {1}
UserIds == {"u1", "u2"}
SessionIds == 1..MaxSessions

(******************************* texts *************************************)
Blank == " "
Newline == "\n"
IsSpace(s) == s \in {Blank, Newline}

Min(a, b) == IF a < b THEN a ELSE b

\* t[:n]
Take(t, n) == SubSeq(t, 1, Min(n, Len(t)))

RECURSIVE LStrip(_)
LStrip(t) == IF t # <<>> /\ IsSpace(Head(t)) THEN LStrip(Tail(t)) ELSE t

RECURSIVE RStrip(_)
RStrip(t) ==
    IF t # <<>> /\ IsSpace(t[Len(t)]) THEN RStrip(SubSeq(t, 1, Len(t) - 1)) ELSE t

\* str.strip()
Strip(t) == RStrip(LStrip(t))

\* str.startswith(prefix)
StartsWith(t, prefix) ==
    Len(t) >= Len(prefix) /\ SubSeq(t, 1, Len(prefix)) = prefix

\* needle in t
Contains(t, needle) ==
    \E i \in 1..(Len(t) + 1 - Len(needle)) :
        SubSeq(t, i, i + Len(needle) - 1) = needle

\* sep.join(parts)
RECURSIVE Join(_, _)
Join(parts, sep) ==
    IF parts = <<>> THEN <<>>
    ELSE IF Len(parts) = 1 THEN parts[1]
    ELSE parts[1] \o sep \o Join(Tail(parts), sep)

\* t[:n] + "..." if len(t) > n else t
Shorten(t, n) == IF Len(t) > n THEN Take(t, n) \o <<"...">> ELSE t

ErrorPrefix == <<"Error:">>
EchoPrefix == <<"Echo:">>
MockPhrase == <<"this is just a mock response">>

(************************ users and the profile gate ***********************)
NoneVal == "None"                       \* Python None in a text column
Truthy(s) == s \notin {NoneVal, ""}     \* bool(s) of an optional string

JDict(entries) == [type |-> "dict", entries |-> entries]   \* a JSON object, as its set of <<key, value>>
JList == [type |-> "list", entries |-> {}]                 \* a JSON value that is not an object
EmptyDict == JDict({})

\* the column users.profile_data: NULL or JSON text (to_dict also provides
\* for the kinds "empty", "blank" and "invalid", which no route writes)
RawNone == [kind |-> "None", value |-> EmptyDict]
\* json.dumps(value)
JsonDumps(value) == [kind |-> "json", value |-> value]

NoUser == [exists |-> FALSE, name |-> NoneVal, profile_data |-> RawNone, is_reset |-> FALSE]
UserRow(name, raw) ==
    [exists |-> TRUE, name |-> name, profile_data |-> raw, is_reset |-> FALSE]

\* User.to_dict: the profile_data entry
ToDictProfileData(raw) ==
    IF raw.kind \in {"None", "empty"} THEN EmptyDict          \* if self.profile_data:
    ELSE IF raw.kind = "blank" THEN EmptyDict                 \* and self.profile_data.strip()
    ELSE IF raw.kind = "invalid" THEN EmptyDict               \* except json.JSONDecodeError
    ELSE IF raw.value.type # "dict" THEN EmptyDict            \* if not isinstance(profile_data, dict)
    ELSE raw.value

NoUserData == [none |-> TRUE, name |-> NoneVal, profile_data |-> EmptyDict]

\* user.to_dict() if user else None
UserData(row) ==
    IF ~row.exists THEN NoUserData
    ELSE [none |-> FALSE, name |-> row.name, profile_data |-> ToDictProfileData(row.profile_data)]

\* the check of the name alone
ProfileGate_name_only(user_data) ==
    IF user_data.none THEN "NO_PROFILE"
    ELSE IF Truthy(user_data.name) THEN "COMPLETE" ELSE "INCOMPLETE"

\* add_chat_message: the profile check
ProfileGate(user_data) ==
    IF user_data.none THEN "NO_PROFILE"
    ELSE LET has_name == Truthy(user_data.name)
             profile_data_is_dict == user_data.profile_data.type = "dict"
             profile_data_has_entries ==
                 IF profile_data_is_dict
                 THEN Cardinality(user_data.profile_data.entries) > 0
                 ELSE FALSE
             profile_complete == has_name /\ profile_data_is_dict /\ profile_data_has_entries
         IN IF profile_complete THEN "COMPLETE" ELSE "INCOMPLETE"

(******************************* the store *********************************)
NoSession == [exists |-> FALSE, user_uuid |-> "none", created_at |-> 0, updated_at |-> 0]

\* ChatDB.get_session_by_uuid
get_session_by_uuid(tbl, session_uuid) == tbl[session_uuid]

\* ChatDB.create_session
create_session(tbl, user_uuid, session_uuid, t) ==
    [tbl EXCEPT ![session_uuid] =
        [exists |-> TRUE, user_uuid |-> user_uuid, created_at |-> t, updated_at |-> t]]

\* ChatSession.to_dict
SessionToDict(session_uuid, row) ==
    [id |-> session_uuid, user_uuid |-> row.user_uuid,
     created_at |-> row.created_at, updated_at |-> row.updated_at,
     message_count |-> 0]

\* the insert that keeps the new row only
add_message_rows_alone(rows, session_uuid, content, is_user, t, origin) ==
    <<[session_uuid |-> session_uuid, is_user |-> is_user, content |-> content,
       created_at |-> t, origin |-> origin]>>

\* ChatDB.add_message: the row inserted.  origin is history: which kind of
\* result the text came from ("User", "Content", "Degraded", "ProviderTerminal").
MessageRow(session_uuid, content, is_user, t, origin) ==
    [session_uuid |-> session_uuid, is_user |-> is_user, content |-> content,
     created_at |-> t, origin |-> origin]

add_message_rows(rows, session_uuid, content, is_user, t, origin) ==
    Append(rows, MessageRow(session_uuid, content, is_user, t, origin))

\* ChatDB.add_message: the session's updated_at is bumped when the session exists
add_message_sessions(tbl, session_uuid, t) ==
    IF tbl[session_uuid].exists
    THEN [tbl EXCEPT ![session_uuid].updated_at = t]
    ELSE tbl

\* the rows appended since the start; the database file outlives the
\* process, and the rows of an earlier run were created before time 0
AppendedRows(rows) == Cardinality({i \in DOMAIN rows : rows[i].created_at >= 0})

RECURSIVE SelectRows(_, _)
SelectRows(rows, session_uuid) ==
    IF rows = <<>> THEN <<>>
    ELSE IF Head(rows).session_uuid = session_uuid
         THEN <<Head(rows)>> \o SelectRows(Tail(rows), session_uuid)
         ELSE SelectRows(Tail(rows), session_uuid)

RECURSIVE RemoveRows(_, _)
RemoveRows(rows, session_uuid) ==
    IF rows = <<>> THEN <<>>
    ELSE IF Head(rows).session_uuid = session_uuid
         THEN RemoveRows(Tail(rows), session_uuid)
         ELSE <<Head(rows)>> \o RemoveRows(Tail(rows), session_uuid)

\* the delete that leaves the messages
delete_session_rows_kept(rows, session_uuid) == rows

\* ChatDB.delete_session
delete_session_rows(rows, session_uuid) == RemoveRows(rows, session_uuid)
delete_session_sessions(tbl, session_uuid) == [tbl EXCEPT ![session_uuid] = NoSession]

\* ORDER BY created_at: every order of the rows that is ascending in
\* created_at; the order among equal timestamps is not fixed by the query.
RECURSIVE OrderByCreatedAt(_, _)
OrderByCreatedAt(sel, I) ==
    IF I = {} THEN {<<>>}
    ELSE LET firsts == {i \in I : \A j \in I : sel[i].created_at <= sel[j].created_at}
         IN UNION {{<<sel[i]>> \o s : s \in OrderByCreatedAt(sel, I \ {i})} : i \in firsts}

\* the query ordered newest first
get_messages_by_session_desc(rows, session_uuid, limit) ==
    LET sel == SelectRows(rows, session_uuid)
        desc == [i \in 1..Len(sel) |-> sel[Len(sel) + 1 - i]]
    IN {IF limit # 0 THEN Take(desc, limit) ELSE desc}

\* ChatDB.get_messages_by_session: the possible results.  limit = 0 is "no limit".
get_messages_by_session(rows, session_uuid, limit) ==
    LET sel == SelectRows(rows, session_uuid)
    IN {IF limit # 0 THEN Take(r, limit) ELSE r : r \in OrderByCreatedAt(sel, DOMAIN sel)}

(***************************** the LLM client ******************************)
HistoryLimit == 10       \* get_messages_by_session(..., limit=10)
MockQuoteLen == 50       \* user_message[:50]
MockEntryLen == 30       \* msg.content[:30]
MockHistoryShown == 5    \* messages[:5]

DefaultName == "yonghu"
BalanceText == <<"zh:API account balance insufficient, cannot generate a reply.">>

\* the text tests of add_chat_message and of deepseek_chat_completion
IsErrorOrMockText(t) ==
    \/ StartsWith(t, ErrorPrefix)
    \/ StartsWith(t, EchoPrefix)
    \/ Contains(t, MockPhrase)

\* create_system_prompt: the prompt names the user when user data is there
create_system_prompt(user_data) ==
    IF user_data.none THEN <<"zh:you are simulating a conversation with the user at 20.">>
    ELSE <<"zh:you are", (IF Truthy(user_data.name) THEN user_data.name ELSE DefaultName), "zh:at the age of 20">>

\* mock_llm_response: the lines of the history part
RECURSIVE MockHistoryLines(_, _)
MockHistoryLines(messages, user_message) ==
    IF messages = <<>> THEN <<>>
    ELSE LET msg == Head(messages)
             rest == MockHistoryLines(Tail(messages), user_message)
         IN IF msg.is_user /\ Strip(msg.content) = Strip(user_message)
            THEN rest
            ELSE << <<"- ", (IF msg.is_user THEN "zh:you" ELSE "zh:me"), ": ">>
                     \o Shorten(msg.content, MockEntryLen) >> \o rest

\* mock_llm_response(user_message, user_data, session_id, db_session), with
\* messages the rows its get_messages_by_session(limit=10) returned
mock_llm_response(user_message, user_data, messages) ==
    LET name == IF user_data.none THEN DefaultName ELSE user_data.name
        greeting == << <<"zh:hello, ", name, "!">>,
                       <<"zh:this is only a simulated reply, the LLM API is unavailable for now.">> >>
        quote == IF user_message # <<>>
                 THEN << <<"\n\nzh:you said: \"">> \o Shorten(user_message, MockQuoteLen) \o <<"\"">> >>
                 ELSE <<>>
        history == IF Len(messages) > 1
                   THEN << <<"\n\nzh:chat history:">> >>
                        \o MockHistoryLines(Take(messages, MockHistoryShown), user_message)
                   ELSE <<>>
    IN Join(greeting \o quote \o history, <<Newline>>)

\* mock_llm_response: the stored messages its history part renders, in order
RECURSIVE MockKept(_, _)
MockKept(messages, user_message) ==
    IF messages = <<>> THEN <<>>
    ELSE LET msg == Head(messages)
             rest == MockKept(Tail(messages), user_message)
         IN IF msg.is_user /\ Strip(msg.content) = Strip(user_message)
            THEN rest
            ELSE <<msg>> \o rest

MockRendered(messages, user_message) ==
    IF Len(messages) > 1
    THEN MockKept(Take(messages, MockHistoryShown), user_message)
    ELSE <<>>

Reverse(s) == [i \in 1..Len(s) |-> s[Len(s) + 1 - i]]

RECURSIVE SkipErrorAndMock(_)
SkipErrorAndMock(history_messages) ==
    IF history_messages = <<>> THEN <<>>
    ELSE LET msg == Head(history_messages)
         IN IF ~msg.is_user /\ IsErrorOrMockText(msg.content)
            THEN SkipErrorAndMock(Tail(history_messages))
            ELSE <<msg>> \o SkipErrorAndMock(Tail(history_messages))

\* the loop without the skip of the current message
RECURSIVE ContextEntries_keeps(_, _)
ContextEntries_keeps(filtered_history, user_message) ==
    IF filtered_history = <<>> THEN <<>>
    ELSE LET msg == Head(filtered_history)
             rest == ContextEntries_keeps(Tail(filtered_history), user_message)
         IN <<[role |-> IF msg.is_user THEN "user" ELSE "assistant",
               content |-> msg.content, origin |-> msg.origin]>> \o rest

RECURSIVE ContextEntries(_, _)
ContextEntries(filtered_history, user_message) ==
    IF filtered_history = <<>> THEN <<>>
    ELSE LET msg == Head(filtered_history)
             rest == ContextEntries(Tail(filtered_history), user_message)
         IN IF msg.is_user /\ Strip(msg.content) = Strip(user_message)
            THEN rest
            ELSE <<[role |-> IF msg.is_user THEN "user" ELSE "assistant",
                    content |-> msg.content, origin |-> msg.origin]>> \o rest

\* the context without the second reversal: history newest first
BuildContext_newest_first(user_message, user_data, history_messages) ==
    LET newest_first == Reverse(history_messages)
        filtered_history == Take(SkipErrorAndMock(newest_first), HistoryLimit)
    IN <<[role |-> "system", content |-> create_system_prompt(user_data), origin |-> "System"]>>
       \o ContextEntries(filtered_history, user_message)
       \o <<[role |-> "user", content |-> user_message, origin |-> "User"]>>

\* the context with the current message appended twice
BuildContext_resend(user_message, user_data, history_messages) ==
    LET newest_first == Reverse(history_messages)
        filtered_history == Reverse(Take(SkipErrorAndMock(newest_first), HistoryLimit))
    IN <<[role |-> "system", content |-> create_system_prompt(user_data), origin |-> "System"]>>
       \o ContextEntries(filtered_history, user_message)
       \o <<[role |-> "user", content |-> user_message, origin |-> "User"]>>
       \o <<[role |-> "user", content |-> user_message, origin |-> "User"]>>

\* deepseek_chat_completion: the messages list of the payload, with
\* history_messages the rows its get_messages_by_session(limit=10) returned
BuildContext(user_message, user_data, history_messages) ==
    LET newest_first == Reverse(history_messages)
        filtered_history == Reverse(Take(SkipErrorAndMock(newest_first), HistoryLimit))
    IN <<[role |-> "system", content |-> create_system_prompt(user_data), origin |-> "System"]>>
       \o ContextEntries(filtered_history, user_message)
       \o <<[role |-> "user", content |-> user_message, origin |-> "User"]>>

\* what one exchange with the provider (or the configuration) comes to
ProviderOutcomes ==
    {"ok", "malformed", "insufficient_balance", "http_401", "http_429", "http_500",
     "exception"}

ProviderTexts == {<<"I", Blank, "remember">>}

\* the mock reply for every failure
FallsBackToMock_always(outcome) == outcome # "ok"

\* llm_response / deepseek_chat_completion: is the reply the mock one
FallsBackToMock(outcome) == outcome \notin {"ok", "insufficient_balance"}

NoResult == [text |-> <<>>, origin |-> "none"]

\* the reply and the kind of result it is.  mock is the text mock_llm_response built.
LlmResult(outcome, content, mock) ==
    IF outcome = "ok" THEN [text |-> content, origin |-> "Content"]
    ELSE IF outcome = "insufficient_balance"
         THEN [text |-> BalanceText, origin |-> "ProviderTerminal"]
         ELSE [text |-> mock, origin |-> "Degraded"]

\* LLMClient.__init__: max_retries, retry_delay
max_retries == 3
retry_delay == 1

RECURSIVE Pow2(_)
Pow2(n) == IF n = 0 THEN 1 ELSE 2 * Pow2(n - 1)

\* int(s) for a header value: the number, or ValueError
DigitValue == [d \in {"0", "1", "2", "3", "4", "5", "6", "7", "8", "9"} |->
                  CASE d = "0" -> 0 [] d = "1" -> 1 [] d = "2" -> 2 [] d = "3" -> 3
                    [] d = "4" -> 4 [] d = "5" -> 5 [] d = "6" -> 6 [] d = "7" -> 7
                    [] d = "8" -> 8 [] d = "9" -> 9]

IsDigits(t) == t # <<>> /\ \A i \in DOMAIN t : t[i] \in DOMAIN DigitValue

RECURSIVE ParseInt(_)
ParseInt(t) ==
    IF t = <<>> THEN 0 ELSE 10 * ParseInt(SubSeq(t, 1, Len(t) - 1)) + DigitValue[t[Len(t)]]

\* RateLimitError.retry_after: None or an int
NoRetryAfter == [none |-> TRUE, value |-> 0]

\* _handle_response: the retry_after it gives RateLimitError for the
\* Retry-After header (<<>>: no header); a value that int() refuses gives None
HandleRetryAfter(header) ==
    IF header = <<>> THEN NoRetryAfter
    ELSE IF IsDigits(header) THEN [none |-> FALSE, value |-> ParseInt(header)]
    ELSE NoRetryAfter

\* _make_request: "delay = e.retry_after if e.retry_after else
\* self.retry_delay * (2 ** (retries - 1))"; None and 0 are both false
BackoffDelay(retry_after, retries) ==
    IF ~retry_after.none /\ retry_after.value # 0
    THEN retry_after.value
    ELSE retry_delay * Pow2(retries - 1)

\* the statuses _handle_response takes for errors
ErrorStatus(outcome) ==
    outcome \in {"http_401", "http_429", "http_500", "insufficient_balance"}

\* _handle_response and generate_text: the exception an answer ends in.
\* error_json.get("error", {}).get("message", ...) is evaluated for every
\* error status before the status is looked at, and raises AttributeError
\* when the body is not JSON or its "error" is not an object
RaisedBy(outcome, error_body) ==
    IF ErrorStatus(outcome) /\ error_body = "text" THEN "AttributeError"
    ELSE IF outcome = "http_401" THEN "AuthenticationError"
    ELSE IF outcome = "http_429" THEN "RateLimitError"
    ELSE IF outcome = "malformed" THEN "KeyError"
    ELSE "APIError"

\* the loop retrying after every answer that is not a success
Retried_every_error(outcome, error_body) == outcome # "ok"

\* _make_request: the exceptions its loop catches and retries: RateLimitError,
\* and aiohttp.ClientError or asyncio.TimeoutError
Retried(outcome, error_body) ==
    RaisedBy(outcome, error_body) = "RateLimitError" \/ outcome = "exception"

(***************************** the rate limiter ****************************)
default_rate == 30
admin_rate == 60
login_rate == 5
whitelist == {"127.0.0.1", "::1"}

Ips == {"10.0.0.1", "127.0.0.1"}
Segments == {"chat", "diary", "users", "admin", "login"}
RouteClasses == {"default", "admin", "login"}

\* a path is the sequence of its segments: /api/chat/sessions is <<"api", "chat", "sessions">>
IsApiPath(path) == Len(path) >= 2 /\ path[1] = "api"      \* path.startswith('/api/')

\* rate_limit_middleware: which of the three rates the path gets
RouteClass(path) ==
    IF path[2] = "admin" THEN "admin"
    ELSE IF path[2] = "login" \/ path[Len(path)] = "login" THEN "login"
    ELSE "default"

RateOf(class) ==
    IF class = "admin" THEN admin_rate
    ELSE IF class = "login" THEN login_rate
    ELSE default_rate

\* key = f"{client_ip}:{request.path.split('/')[2]}"
rate_limit_key(ip, path) == <<ip, path[2]>>

\* the middleware without the whitelist
RateLimited_everyone(ip, path) == variant = "app" /\ IsApiPath(path)

\* the middleware counts the request at all
RateLimited(ip, path) == variant = "app" /\ IsApiPath(path) /\ ip \notin whitelist

\* passed is history: the requests the bucket let through in its minute
NoBucket == [present |-> FALSE, time |-> 0, count |-> 0, passed |-> 0]

\* the bucket written back with the count of a read made before another
\* request's increment
BucketAfter_lost_update(bucket, current_time) ==
    LET start == IF ~bucket.present \/ bucket.time # current_time
                 THEN [present |-> TRUE, time |-> current_time, count |-> 0, passed |-> 0]
                 ELSE bucket
    IN [start EXCEPT !.count = 1]

\* the bucket after the reset-if-new-minute and the increment
BucketAfter(bucket, current_time) ==
    LET start == IF ~bucket.present \/ bucket.time # current_time
                 THEN [present |-> TRUE, time |-> current_time, count |-> 0, passed |-> 0]
                 ELSE bucket
    IN [start EXCEPT !.count = @ + 1]

\* int(timestamp // 60)
SecondsPerMinute == 60

current_minute(t) == t \div SecondsPerMinute

NoChecks == [minute |-> 0, n |-> 0, admitted |-> TRUE]

\* history: the n-th check of the client in the class in this minute, and its result
ChecksAfter(entry, current_time, admitted) ==
    [minute |-> current_time,
     n |-> IF entry.n = 0 \/ entry.minute # current_time THEN 1 ELSE entry.n + 1,
     admitted |-> admitted]

(******************************* requests **********************************)
NoChatDict == [id |-> 0, user_uuid |-> "none", created_at |-> 0, updated_at |-> 0,
               message_count |-> 0]

NoResp == [status |-> 0, kind |-> "none", new_session_id |-> 0, chat |-> NoChatDict,
           messages |-> <<>>, content |-> <<>>]

Resp(status, kind) == [NoResp EXCEPT !.status = status, !.kind = kind]

IdleReq ==
    [pc |-> "idle", route |-> "none", ip |-> "none", path |-> <<>>,
     user_uuid |-> "", session_id |-> 0, user_message |-> <<>>,
     body_name |-> NoneVal, body_profile |-> EmptyDict,
     chat |-> NoChatDict, from_cache |-> FALSE,
     user_row |-> NoUser, user_data |-> NoUserData, gate |-> "none",
     ctx |-> <<>>, result |-> NoResult, provider_calls |-> 0, ai_stored |-> FALSE,
     outcome |-> "none",        \* history: what the provider did with the last request
     mock_calls |-> 0,          \* history: calls of mock_llm_response
     retries |-> 0,             \* LLMClient._make_request: retries
     raised |-> "none",         \* the exception raised to the caller of LLMClient
     header |-> <<>>,           \* history: the Retry-After header of the last answer
     delay |-> 0,               \* history: the last sleep of _make_request
     failed_call |-> "none",    \* history: the store call of the turn that raised
     admin_token |-> FALSE,     \* X-Admin-Token is the admin password
     cache_expired |-> FALSE,   \* history: get_chat found an entry that had expired
     rate_limited |-> FALSE,    \* history: the middleware answered this request
     resp |-> NoResp]

Done(r, resp) == [r EXCEPT !.pc = "done", !.resp = resp]

RoutePath(route, session_id) ==
    IF route = "create_chat_session" THEN <<"api", "chat", "sessions">>
    ELSE IF route \in {"add_chat_message", "session_messages_handler"}
         THEN <<"api", "chat", "sessions", ToString(session_id), "messages">>
    ELSE IF route \in {"get_chat", "delete_chat"}
         THEN <<"api", "chat", ToString(session_id)>>
    ELSE IF route = "create_message" THEN <<"api", "chat">>
    ELSE IF route = "update_profile" THEN <<"api", "users", "profile">>
    ELSE IF route = "reset_device" THEN <<"api", "users", "reset">>
    ELSE IF route = "admin_delete_session"
         THEN <<"api", "admin", "sessions", ToString(session_id)>>
    ELSE <<"ws", "chat", ToString(session_id)>>

\* the handler entered whatever the middleware returned
AfterMiddleware_passes(r, rejected) ==
    [r EXCEPT !.pc = r.route, !.rate_limited = rejected]

\* Sanic runs the handler only when no request middleware returned a response
AfterMiddleware(r, rejected) ==
    IF rejected
    THEN [Done(r, Resp(429, "RATE_LIMIT_EXCEEDED")) EXCEPT !.rate_limited = TRUE]
    ELSE [r EXCEPT !.pc = r.route]

\* A request arrives on connection c: rate_limit_middleware runs, then the handler
Arrive(c, fields) ==
    /\ req[c].pc \in {"idle", "done"}
    /\ LET r == [f \in DOMAIN IdleReq |-> IF f \in DOMAIN fields THEN fields[f] ELSE IdleReq[f]]
           limited == RateLimited(r.ip, r.path)
           key == rate_limit_key(r.ip, r.path)
           current_time == current_minute(now)
           bucket == BucketAfter(rate_limit_storage[key], current_time)
           limit == RateOf(RouteClass(r.path))
           rejected == limited /\ bucket.count > limit
           class == <<r.ip, RouteClass(r.path)>>
       IN /\ limited => bucket.count <= limit + MaxOverLimit
          /\ rate_limit_storage' =
                 IF limited
                 THEN [rate_limit_storage EXCEPT ![key] =
                          [bucket EXCEPT !.passed = IF rejected THEN @ ELSE @ + 1]]
                 ELSE rate_limit_storage
          /\ checks' =
                 IF limited
                 THEN [checks EXCEPT ![class] = ChecksAfter(@, current_time, ~rejected)]
                 ELSE checks
          /\ req' = [req EXCEPT ![c] = AfterMiddleware(r, rejected)]
    /\ UNCHANGED <<now, variant, users, chat_sessions, chat_messages, chat_cache,
                   cache_expiry, uuid_counter>>

(**************************** routes/chat.py *******************************)
CACHE_TTL == 300

\* filled_at is history: when the entry was put into the cache
NoCacheEntry == [cached |-> FALSE, dict |-> NoChatDict, filled_at |-> 0]
NoExpiry == [present |-> FALSE, at |-> 0]

\* the test with <= for <
CacheHit_inclusive(chat_id) ==
    /\ chat_cache[chat_id].cached
    /\ now <= (IF cache_expiry[chat_id].present THEN cache_expiry[chat_id].at ELSE 0)

\* get_cached_chat: is the chat served from the cache
CacheHit(chat_id) ==
    /\ chat_cache[chat_id].cached
    /\ now < (IF cache_expiry[chat_id].present THEN cache_expiry[chat_id].at ELSE 0)

\* str(uuid.uuid4()) as a session id: an id never handed out before
NextUuid == uuid_counter + 1

Set(c, r) == req' = [req EXCEPT ![c] = r]

\* the ownership test left out: every caller passes
BelongsToAnother_open(chat_session, user_uuid) == FALSE

\* chat_session.user_uuid != user_uuid
BelongsToAnother(chat_session, user_uuid) == chat_session.user_uuid # user_uuid

\* POST /api/chat/sessions
create_chat_session(c) ==
    LET r == req[c] IN
    /\ r.pc = "create_chat_session"
    /\ IF r.user_uuid = ""
       THEN /\ Set(c, Done(r, Resp(400, "No user_uuid provided")))
            /\ UNCHANGED <<chat_sessions, uuid_counter>>
       ELSE /\ uuid_counter < MaxSessions
            /\ uuid_counter' = NextUuid
            /\ chat_sessions' = create_session(chat_sessions, r.user_uuid, NextUuid, now)
            /\ Set(c, Done(r, [Resp(200, "session") EXCEPT
                   !.chat = SessionToDict(NextUuid, chat_sessions'[NextUuid])]))
    /\ UNCHANGED <<now, variant, users, chat_messages, chat_cache, cache_expiry,
                   rate_limit_storage, checks>>

\* the handler that stores the message of an unknown session before refusing it
add_chat_message_keeps_rejected(c) ==
    LET r == req[c]
        chat_session == get_session_by_uuid(chat_sessions, r.session_id)
    IN
    /\ r.pc = "add_chat_message"
    /\ IF r.user_message = <<>>
       THEN /\ Set(c, Done(r, Resp(400, "No message provided")))
            /\ UNCHANGED <<chat_sessions, uuid_counter, chat_messages>>
       ELSE IF r.user_uuid = ""
       THEN /\ Set(c, Done(r, Resp(400, "No user_uuid provided")))
            /\ UNCHANGED <<chat_sessions, uuid_counter, chat_messages>>
       ELSE IF ~chat_session.exists
       THEN /\ chat_messages' = add_message_rows(chat_messages, r.session_id,
                                                 r.user_message, TRUE, now, "User")
            /\ Set(c, Done(r, Resp(404, "Chat session not found")))
            /\ UNCHANGED <<chat_sessions, uuid_counter>>
       ELSE IF BelongsToAnother(chat_session, r.user_uuid)
       THEN /\ uuid_counter < MaxSessions
            /\ uuid_counter' = NextUuid
            /\ chat_sessions' = create_session(chat_sessions, r.user_uuid, NextUuid, now)
            /\ Set(c, Done(r, [Resp(403, "Session belongs to another user") EXCEPT
                   !.new_session_id = NextUuid]))
            /\ UNCHANGED chat_messages
       ELSE /\ Set(c, [r EXCEPT !.pc = "store_user_message"])
            /\ UNCHANGED <<chat_sessions, uuid_counter, chat_messages>>
    /\ UNCHANGED <<now, variant, users, chat_cache, cache_expiry,
                   rate_limit_storage, checks>>

\* the handler that looks at the profile before it stores the message
add_chat_message_gate_first(c) ==
    LET r == req[c]
        chat_session == get_session_by_uuid(chat_sessions, r.session_id)
        user_data == UserData(users[r.user_uuid])
        Gate(u) ==
            IF u.none THEN "NO_PROFILE"
            ELSE IF Truthy(u.name) /\ Cardinality(u.profile_data.entries) > 0
                 THEN "COMPLETE" ELSE "INCOMPLETE"
    IN
    /\ r.pc = "add_chat_message"
    /\ IF r.user_message = <<>>
       THEN /\ Set(c, Done(r, Resp(400, "No message provided")))
            /\ UNCHANGED <<chat_sessions, uuid_counter>>
       ELSE IF r.user_uuid = ""
       THEN /\ Set(c, Done(r, Resp(400, "No user_uuid provided")))
            /\ UNCHANGED <<chat_sessions, uuid_counter>>
       ELSE IF ~chat_session.exists
       THEN /\ Set(c, Done(r, Resp(404, "Chat session not found")))
            /\ UNCHANGED <<chat_sessions, uuid_counter>>
       ELSE IF BelongsToAnother(chat_session, r.user_uuid)
       THEN /\ uuid_counter < MaxSessions
            /\ uuid_counter' = NextUuid
            /\ chat_sessions' = create_session(chat_sessions, r.user_uuid, NextUuid, now)
            /\ Set(c, Done(r, [Resp(403, "Session belongs to another user") EXCEPT
                   !.new_session_id = NextUuid]))
       ELSE IF Gate(user_data) # "COMPLETE"
       THEN /\ Set(c, Done([r EXCEPT !.user_data = user_data, !.gate = Gate(user_data)],
                           Resp(200, "redirect")))
            /\ UNCHANGED <<chat_sessions, uuid_counter>>
       ELSE /\ Set(c, [r EXCEPT !.pc = "store_user_message"])
            /\ UNCHANGED <<chat_sessions, uuid_counter>>
    /\ UNCHANGED <<now, variant, users, chat_messages, chat_cache, cache_expiry,
                   rate_limit_storage, checks>>

\* add_chat_message, up to the ownership check
add_chat_message(c) ==
    LET r == req[c]
        chat_session == get_session_by_uuid(chat_sessions, r.session_id)
    IN
    /\ r.pc = "add_chat_message"
    /\ IF r.user_message = <<>>
       THEN /\ Set(c, Done(r, Resp(400, "No message provided")))
            /\ UNCHANGED <<chat_sessions, uuid_counter>>
       ELSE IF r.user_uuid = ""
       THEN /\ Set(c, Done(r, Resp(400, "No user_uuid provided")))
            /\ UNCHANGED <<chat_sessions, uuid_counter>>
       ELSE IF ~chat_session.exists
       THEN /\ Set(c, Done(r, Resp(404, "Chat session not found")))
            /\ UNCHANGED <<chat_sessions, uuid_counter>>
       ELSE IF BelongsToAnother(chat_session, r.user_uuid)
       THEN /\ uuid_counter < MaxSessions
            /\ uuid_counter' = NextUuid
            /\ chat_sessions' = create_session(chat_sessions, r.user_uuid, NextUuid, now)
            /\ Set(c, Done(r, [Resp(403, "Session belongs to another user") EXCEPT
                   !.new_session_id = NextUuid]))
       ELSE /\ Set(c, [r EXCEPT !.pc = "store_user_message"])
            /\ UNCHANGED <<chat_sessions, uuid_counter>>
    /\ UNCHANGED <<now, variant, users, chat_messages, chat_cache, cache_expiry,
                   rate_limit_storage, checks>>

\* the positions of a turn between its ownership check and its response
MidTurn == {"store_user_message", "read_user", "llm_response", "post",
            "mock_llm_response", "store_ai_response"}

\* the append that waits while another turn is under way on the session
store_user_message_serialized(c, accepted) ==
    LET r == req[c] IN
    /\ r.pc = "store_user_message"
    /\ \A d \in DOMAIN req \ {c} :
          ~(req[d].pc \in MidTurn \ {"store_user_message"} /\ req[d].session_id = r.session_id)
    /\ variant = "app" => accepted
    /\ IF accepted
       THEN /\ AppendedRows(chat_messages) < MaxMessages
            /\ chat_messages' = add_message_rows(chat_messages, r.session_id,
                                                 r.user_message, TRUE, now, "User")
            /\ chat_sessions' = add_message_sessions(chat_sessions, r.session_id, now)
            /\ Set(c, [r EXCEPT !.pc = "read_user"])
       ELSE /\ Set(c, Done(r, Resp(500, "error")))
            /\ UNCHANGED <<chat_messages, chat_sessions>>
    /\ UNCHANGED <<now, variant, users, chat_cache, cache_expiry, uuid_counter,
                   rate_limit_storage, checks>>

\* add_chat_message: "Store user message".  The merged copy passes the
\* keyword session_id to ChatDB.add_message, whose parameter is session_uuid
\* in every db.py of the repository; the db module of the merged copy is not
\* in the repository, so the call either is accepted or raises (500).
store_user_message(c, accepted) ==
    LET r == req[c] IN
    /\ r.pc = "store_user_message"
    /\ variant = "app" => accepted
    /\ IF accepted
       THEN /\ AppendedRows(chat_messages) < MaxMessages
            /\ chat_messages' = add_message_rows(chat_messages, r.session_id,
                                                 r.user_message, TRUE, now, "User")
            /\ chat_sessions' = add_message_sessions(chat_sessions, r.session_id, now)
            /\ Set(c, [r EXCEPT !.pc = "read_user"])
       ELSE /\ Set(c, Done(r, Resp(500, "error")))
            /\ UNCHANGED <<chat_messages, chat_sessions>>
    /\ UNCHANGED <<now, variant, users, chat_cache, cache_expiry, uuid_counter,
                   rate_limit_storage, checks>>

\* add_chat_message: "Get user data for personalization" and the profile
\* check; the merged copy has no profile check
read_user(c) ==
    LET r == req[c]
        user == users[r.user_uuid]
        user_data == UserData(user)
        gate == ProfileGate(user_data)
    IN
    /\ r.pc = "read_user"
    /\ IF variant = "app"
       THEN IF gate # "COMPLETE"
            THEN Set(c, Done([r EXCEPT !.user_row = user, !.user_data = user_data,
                                       !.gate = gate],
                             Resp(200, "redirect")))
            ELSE Set(c, [r EXCEPT !.user_row = user, !.user_data = user_data,
                                  !.gate = gate, !.pc = "llm_response"])
       ELSE Set(c, [r EXCEPT !.user_row = user, !.user_data = user_data,
                             !.pc = "llm_response"])
    /\ UNCHANGED <<now, variant, users, chat_sessions, chat_messages, chat_cache,
                   cache_expiry, uuid_counter, rate_limit_storage, checks>>

\* llm_response, and deepseek_chat_completion up to the request: without an
\* API key the reply is the mock one; with a key the context is assembled
llm_response(c, api_key_set) ==
    LET r == req[c] IN
    /\ r.pc = "llm_response"
    /\ IF ~api_key_set
       THEN Set(c, [r EXCEPT !.pc = "mock_llm_response"])
       ELSE \E history_messages \in
                 get_messages_by_session(chat_messages, r.session_id, HistoryLimit) :
               Set(c, [r EXCEPT !.ctx = BuildContext(r.user_message, r.user_data,
                                                      history_messages),
                                !.pc = "post"])
    /\ UNCHANGED <<now, variant, users, chat_sessions, chat_messages, chat_cache,
                   cache_expiry, uuid_counter, rate_limit_storage, checks>>

\* deepseek_chat_completion: session.post and the handling of the response
post(c, outcome, content) ==
    LET r == req[c] IN
    /\ r.pc = "post"
    /\ Set(c, [r EXCEPT !.provider_calls = @ + 1,
                        !.outcome = outcome,
                        !.result = IF FallsBackToMock(outcome) THEN NoResult
                                   ELSE LlmResult(outcome, content, <<>>),
                        !.pc = IF FallsBackToMock(outcome) THEN "mock_llm_response"
                               ELSE "store_ai_response"])
    /\ UNCHANGED <<now, variant, users, chat_sessions, chat_messages, chat_cache,
                   cache_expiry, uuid_counter, rate_limit_storage, checks>>

\* mock_llm_response raising: the turn ends in an error response
mock_llm_response_call_raises(c) ==
    LET r == req[c] IN
    /\ r.pc = "mock_llm_response"
    /\ Set(c, Done([r EXCEPT !.mock_calls = @ + 1], Resp(500, "error")))
    /\ UNCHANGED <<now, variant, users, chat_sessions, chat_messages, chat_cache,
                   cache_expiry, uuid_counter, rate_limit_storage, checks>>

\* mock_llm_response
mock_llm_response_call(c) ==
    LET r == req[c] IN
    /\ r.pc = "mock_llm_response"
    /\ \E messages \in get_messages_by_session(chat_messages, r.session_id, HistoryLimit) :
          Set(c, [r EXCEPT !.mock_calls = @ + 1,
                           !.result = LlmResult("mock",
                                <<>>, mock_llm_response(r.user_message, r.user_data, messages)),
                           !.pc = "store_ai_response"])
    /\ UNCHANGED <<now, variant, users, chat_sessions, chat_messages, chat_cache,
                   cache_expiry, uuid_counter, rate_limit_storage, checks>>

\* add_chat_message: "Only store AI response if it's not an error or mock message"
ShouldStore(ai_response) == ~IsErrorOrMockText(ai_response)

store_ai_response(c) ==
    LET r == req[c]
        ai_response == r.result.text
        resp == [Resp(200, "ai_response") EXCEPT !.content = ai_response]
    IN
    /\ r.pc = "store_ai_response"
    /\ r.route = "add_chat_message"
    /\ IF ShouldStore(ai_response)
       THEN /\ AppendedRows(chat_messages) < MaxMessages
            /\ chat_messages' = add_message_rows(chat_messages, r.session_id,
                                                 ai_response, FALSE, now, r.result.origin)
            /\ chat_sessions' = add_message_sessions(chat_sessions, r.session_id, now)
            /\ Set(c, Done([r EXCEPT !.ai_stored = TRUE], resp))
       ELSE /\ Set(c, Done(r, resp))
            /\ UNCHANGED <<chat_messages, chat_sessions>>
    /\ UNCHANGED <<now, variant, users, chat_cache, cache_expiry, uuid_counter,
                   rate_limit_storage, checks>>

\* create_message of the merged copy (POST /api/chat): the validation, and
\* the new session when no chat_id is given (session_id 0).  A chat_id that
\* is given is used as it is.
create_message(c) ==
    LET r == req[c] IN
    /\ r.pc = "create_message"
    /\ IF r.user_message = <<>> \/ r.user_uuid = ""
       THEN /\ Set(c, Done(r, Resp(400, "Missing required fields")))
            /\ UNCHANGED <<chat_sessions, uuid_counter>>
       ELSE IF r.session_id = 0
       THEN /\ uuid_counter < MaxSessions
            /\ uuid_counter' = NextUuid
            /\ chat_sessions' = create_session(chat_sessions, r.user_uuid, NextUuid, now)
            /\ Set(c, [r EXCEPT !.session_id = NextUuid, !.pc = "create_message_store"])
       ELSE /\ Set(c, [r EXCEPT !.pc = "create_message_store"])
            /\ UNCHANGED <<chat_sessions, uuid_counter>>
    /\ UNCHANGED <<now, variant, users, chat_messages, chat_cache, cache_expiry,
                   rate_limit_storage, checks>>

\* create_message: "Create user message".  ChatDB.add_message inserts the
\* row whether or not the session exists (SQLite, the default driver, does
\* not enforce the foreign key unless asked to)
create_message_store(c) ==
    LET r == req[c] IN
    /\ r.pc = "create_message_store"
    /\ AppendedRows(chat_messages) < MaxMessages
    /\ chat_messages' = add_message_rows(chat_messages, r.session_id,
                                         r.user_message, TRUE, now, "User")
    /\ chat_sessions' = add_message_sessions(chat_sessions, r.session_id, now)
    /\ Set(c, [r EXCEPT !.pc = "read_user"])
    /\ UNCHANGED <<now, variant, users, chat_cache, cache_expiry, uuid_counter,
                   rate_limit_storage, checks>>

\* create_message: "Create AI message", clear_chat_cache and the response
create_message_store_ai(c) ==
    LET r == req[c]
        ai_response == r.result.text
    IN
    /\ r.pc = "store_ai_response"
    /\ r.route = "create_message"
    /\ AppendedRows(chat_messages) < MaxMessages
    /\ chat_messages' = add_message_rows(chat_messages, r.session_id,
                                         ai_response, FALSE, now, r.result.origin)
    /\ chat_sessions' = add_message_sessions(chat_sessions, r.session_id, now)
    /\ chat_cache' = [chat_cache EXCEPT ![r.session_id] = NoCacheEntry]
    /\ cache_expiry' = [cache_expiry EXCEPT ![r.session_id] = NoExpiry]
    /\ Set(c, Done([r EXCEPT !.ai_stored = TRUE],
                   [Resp(200, "response") EXCEPT !.content = ai_response]))
    /\ UNCHANGED <<now, variant, users, uuid_counter, rate_limit_storage, checks>>

\* session_messages_handler, GET, up to the ownership check
session_messages_handler(c) ==
    LET r == req[c]
        chat == get_session_by_uuid(chat_sessions, r.session_id)
    IN
    /\ r.pc = "session_messages_handler"
    /\ IF r.user_uuid = ""
       THEN /\ Set(c, Done(r, Resp(400, "User UUID is required")))
            /\ UNCHANGED uuid_counter
       ELSE IF ~chat.exists
       THEN /\ Set(c, Done(r, Resp(404, "Chat session not found")))
            /\ UNCHANGED uuid_counter
       ELSE IF BelongsToAnother(chat, r.user_uuid)
       THEN /\ uuid_counter < MaxSessions
            /\ uuid_counter' = NextUuid
            /\ Set(c, Done(r, [Resp(403, "Session belongs to another user") EXCEPT
                   !.new_session_id = NextUuid]))
       ELSE /\ Set(c, [r EXCEPT !.pc = "list_messages"])
            /\ UNCHANGED uuid_counter
    /\ UNCHANGED <<now, variant, users, chat_sessions, chat_messages, chat_cache,
                   cache_expiry, rate_limit_storage, checks>>

\* session_messages_handler, GET: "Get all messages for this session"
list_messages(c) ==
    LET r == req[c] IN
    /\ r.pc = "list_messages"
    /\ \E messages \in get_messages_by_session(chat_messages, r.session_id, 0) :
          Set(c, Done(r, [Resp(200, "messages") EXCEPT !.messages = messages]))
    /\ UNCHANGED <<now, variant, users, chat_sessions, chat_messages, chat_cache,
                   cache_expiry, uuid_counter, rate_limit_storage, checks>>

\* get_chat: the cache, then the store, then the cache fill
get_chat(c) ==
    LET r == req[c]
        chat == get_session_by_uuid(chat_sessions, r.session_id)
        chat_dict == SessionToDict(r.session_id, chat)
    IN
    /\ r.pc = "get_chat"
    /\ IF CacheHit(r.session_id)
       THEN /\ Set(c, [r EXCEPT !.chat = chat_cache[r.session_id].dict,
                                !.from_cache = TRUE, !.pc = "get_chat_messages"])
            /\ UNCHANGED <<chat_cache, cache_expiry>>
       ELSE IF chat.exists
       THEN /\ chat_cache' = [chat_cache EXCEPT ![r.session_id] =
                                 [cached |-> TRUE, dict |-> chat_dict, filled_at |-> now]]
            /\ cache_expiry' = [cache_expiry EXCEPT ![r.session_id] =
                                   [present |-> TRUE, at |-> now + CACHE_TTL]]
            /\ Set(c, [r EXCEPT !.chat = chat_dict, !.pc = "get_chat_messages",
                                !.cache_expired = chat_cache[r.session_id].cached])
       ELSE /\ Set(c, Done([r EXCEPT !.cache_expired = chat_cache[r.session_id].cached],
                           Resp(404, "Chat not found")))
            /\ UNCHANGED <<chat_cache, cache_expiry>>
    /\ UNCHANGED <<now, variant, users, chat_sessions, chat_messages, uuid_counter,
                   rate_limit_storage, checks>>

\* get_chat: the messages and the response.  A chat taken from the cache is
\* the cached dict itself, so its message_count is updated in the cache too.
get_chat_messages(c) ==
    LET r == req[c] IN
    /\ r.pc = "get_chat_messages"
    /\ \E messages \in get_messages_by_session(chat_messages, r.session_id, 0) :
          LET chat_dict == [r.chat EXCEPT !.message_count = Len(messages)]
          IN /\ Set(c, Done(r, [Resp(200, "chat") EXCEPT !.chat = chat_dict,
                                                         !.messages = messages]))
             /\ chat_cache' =
                    IF /\ r.from_cache
                       /\ chat_cache[r.session_id].cached
                       /\ chat_cache[r.session_id].dict = r.chat
                    THEN [chat_cache EXCEPT ![r.session_id].dict = chat_dict]
                    ELSE chat_cache
    /\ UNCHANGED <<now, variant, users, chat_sessions, chat_messages, cache_expiry,
                   uuid_counter, rate_limit_storage, checks>>

\* delete_chat: ChatDB.delete_session
delete_chat(c) ==
    LET r == req[c] IN
    /\ r.pc = "delete_chat"
    /\ chat_messages' = delete_session_rows(chat_messages, r.session_id)
    /\ chat_sessions' = delete_session_sessions(chat_sessions, r.session_id)
    /\ Set(c, [r EXCEPT !.pc = "clear_chat_cache"])
    /\ UNCHANGED <<now, variant, users, chat_cache, cache_expiry, uuid_counter,
                   rate_limit_storage, checks>>

\* delete_chat: clear_chat_cache and the response
clear_chat_cache(c) ==
    LET r == req[c] IN
    /\ r.pc = "clear_chat_cache"
    /\ chat_cache' = [chat_cache EXCEPT ![r.session_id] = NoCacheEntry]
    /\ cache_expiry' = [cache_expiry EXCEPT ![r.session_id] = NoExpiry]
    /\ Set(c, Done(r, Resp(200, "Chat deleted successfully")))
    /\ UNCHANGED <<now, variant, users, chat_sessions, chat_messages, uuid_counter,
                   rate_limit_storage, checks>>

\* chat_socket of the "new" copy: the connection, up to the confirmation
chat_socket(c) ==
    LET r == req[c]
        chat_session == get_session_by_uuid(chat_sessions, r.session_id)
    IN
    /\ r.pc = "chat_socket"
    /\ IF r.user_uuid = ""
       THEN /\ Set(c, Done(r, Resp(400, "Missing user UUID")))
            /\ UNCHANGED <<chat_sessions, chat_messages>>
       ELSE IF ~users[r.user_uuid].exists
       THEN /\ Set(c, Done(r, Resp(404, "User not found")))
            /\ UNCHANGED <<chat_sessions, chat_messages>>
       ELSE IF ~chat_session.exists
       THEN /\ chat_sessions' = create_session(chat_sessions, r.user_uuid, r.session_id, now)
            /\ Set(c, Done(r, Resp(200, "connected")))
            /\ UNCHANGED chat_messages
       ELSE IF chat_session.user_uuid # r.user_uuid
       THEN /\ chat_messages' = delete_session_rows(chat_messages, r.session_id)
            /\ chat_sessions' = create_session(
                   delete_session_sessions(chat_sessions, r.session_id),
                   r.user_uuid, r.session_id, now)
            /\ Set(c, Done(r, Resp(200, "connected")))
       ELSE /\ Set(c, Done(r, Resp(200, "connected")))
            /\ UNCHANGED <<chat_sessions, chat_messages>>
    /\ UNCHANGED <<now, variant, users, chat_cache, cache_expiry, uuid_counter,
                   rate_limit_storage, checks>>

(******************************** app.py ***********************************)
\* dict.update
DictUpdate(existing, new) ==
    JDict({e \in existing.entries : \A n \in new.entries : n[1] # e[1]} \cup new.entries)

\* bool(value) of a JSON value held in profile_data
JsonTruthy(value) == value.type = "list" \/ value.entries # {}

\* UserDB.create_user: profile_data=json.dumps(profile_data) if profile_data else None
create_user(name, profile_data) ==
    UserRow(name, IF JsonTruthy(profile_data) THEN JsonDumps(profile_data) ELSE RawNone)

\* UserDB.update_user raises when the stored JSON is not an object (list.update)
UpdateUserRaises(row, profile_data) ==
    /\ profile_data.type = "dict"
    /\ row.profile_data.kind = "json"
    /\ row.profile_data.value.type # "dict"

\* UserDB.update_user
update_user(row, name, profile_data) ==
    LET existing_data ==
            IF row.profile_data.kind = "json" THEN row.profile_data.value ELSE EmptyDict
    IN [row EXCEPT !.name = name,
                   !.profile_data = IF profile_data.type = "dict"
                                    THEN JsonDumps(DictUpdate(existing_data, profile_data))
                                    ELSE @]

\* POST /api/users/profile
update_profile(c) ==
    LET r == req[c]
        user == users[r.user_uuid]
    IN
    /\ r.pc = "update_profile"
    /\ IF r.user_uuid = ""
       THEN /\ Set(c, Done(r, Resp(400, "Missing user UUID")))
            /\ UNCHANGED users
       ELSE IF ~Truthy(r.body_name)
       THEN /\ Set(c, Done(r, Resp(400, "Invalid name")))
            /\ UNCHANGED users
       ELSE IF ~user.exists
       THEN /\ users' = [users EXCEPT ![r.user_uuid] = create_user(r.body_name, r.body_profile)]
            /\ Set(c, Done(r, Resp(200, "Profile updated successfully")))
       ELSE IF UpdateUserRaises(user, r.body_profile)
       THEN /\ Set(c, Done(r, Resp(500, "Server error")))
            /\ UNCHANGED users
       ELSE /\ users' = [users EXCEPT ![r.user_uuid] = update_user(user, r.body_name, r.body_profile)]
            /\ Set(c, Done(r, Resp(200, "Profile updated successfully")))
    /\ UNCHANGED <<now, variant, chat_sessions, chat_messages, chat_cache, cache_expiry,
                   uuid_counter, rate_limit_storage, checks>>

\* DELETE /api/admin/sessions/<session_id>
admin_delete_session(c) ==
    LET r == req[c] IN
    /\ r.pc = "admin_delete_session"
    /\ IF ~r.admin_token
       THEN /\ Set(c, Done(r, Resp(401, "Unauthorized")))
            /\ UNCHANGED <<chat_sessions, chat_messages>>
       ELSE /\ chat_messages' = delete_session_rows(chat_messages, r.session_id)
            /\ chat_sessions' = delete_session_sessions(chat_sessions, r.session_id)
            /\ Set(c, Done(r, Resp(200, "Session deleted successfully")))
    /\ UNCHANGED <<now, variant, users, chat_cache, cache_expiry, uuid_counter,
                   rate_limit_storage, checks>>

\* ChatDB.get_sessions_by_user: the ids of the user's sessions
get_sessions_by_user(tbl, user_uuid) ==
    {s \in DOMAIN tbl : tbl[s].exists /\ tbl[s].user_uuid = user_uuid}

\* UserDB.reset_user: ChatDB.delete_session for each session of the user
RECURSIVE reset_user_rows(_, _)
reset_user_rows(rows, todo) ==
    IF todo = {} THEN rows
    ELSE LET s == CHOOSE x \in todo : TRUE
         IN reset_user_rows(delete_session_rows(rows, s), todo \ {s})

RECURSIVE reset_user_sessions(_, _)
reset_user_sessions(tbl, todo) ==
    IF todo = {} THEN tbl
    ELSE LET s == CHOOSE x \in todo : TRUE
         IN reset_user_sessions(delete_session_sessions(tbl, s), todo \ {s})

\* POST /api/users/reset with old_uuid in the body (diary entries and
\* contacts, which reset_user deletes too, are not part of this model)
reset_device(c) ==
    LET r == req[c]
        todo == get_sessions_by_user(chat_sessions, r.user_uuid)
    IN
    /\ r.pc = "reset_device"
    /\ IF r.user_uuid \in UserIds /\ users[r.user_uuid].exists
       THEN /\ users' = [users EXCEPT ![r.user_uuid].is_reset = TRUE]
            /\ chat_messages' = reset_user_rows(chat_messages, todo)
            /\ chat_sessions' = reset_user_sessions(chat_sessions, todo)
       ELSE UNCHANGED <<users, chat_sessions, chat_messages>>
    /\ Set(c, Done(r, Resp(200, "reset")))
    /\ UNCHANGED <<now, variant, chat_cache, cache_expiry, uuid_counter,
                   rate_limit_storage, checks>>

\* generate_async is called: a client is made and generate_text called
generate_async(c) ==
    /\ req[c].pc \in {"idle", "done"}
    /\ Set(c, [IdleReq EXCEPT !.pc = "make_request", !.route = "generate_async"])
    /\ UNCHANGED <<now, variant, users, chat_sessions, chat_messages, chat_cache,
                   cache_expiry, uuid_counter, rate_limit_storage, checks>>

\* LLMClient._make_request: one pass of the retry loop, with _handle_response,
\* and generate_text's reading of the answer; an exception that is not
\* caught goes through generate_text and generate_async to the caller
make_request(c, outcome, content, header, error_body) ==
    LET r == req[c]
        tried == [r EXCEPT !.provider_calls = @ + 1, !.outcome = outcome,
                           !.header = IF outcome = "http_429" THEN header ELSE <<>>]
        retries == r.retries + 1
        retry_after == IF outcome = "http_429" THEN HandleRetryAfter(header)
                       ELSE NoRetryAfter
        delay == BackoffDelay(retry_after, retries)
    IN
    /\ r.pc = "make_request"
    /\ r.retries <= max_retries
    /\ IF outcome = "ok"
       THEN /\ Set(c, Done([tried EXCEPT !.result = LlmResult("ok", content, <<>>)],
                           [Resp(200, "text") EXCEPT !.content = content]))
            /\ UNCHANGED now
       ELSE IF Retried(outcome, error_body) /\ retries <= max_retries
       THEN /\ current_minute(now + delay) <= MaxMinutes
            /\ now' = now + delay                              \* asyncio.sleep(delay)
            /\ Set(c, [tried EXCEPT !.retries = retries, !.delay = delay])
       ELSE /\ Set(c, Done([tried EXCEPT !.retries = IF Retried(outcome, error_body)
                                                      THEN retries ELSE @,
                                         !.raised = IF outcome = "exception" THEN "APIError"
                                                    ELSE RaisedBy(outcome, error_body)],
                           Resp(0, "raised")))
            /\ UNCHANGED now
    /\ UNCHANGED <<variant, users, chat_sessions, chat_messages, chat_cache,
                   cache_expiry, uuid_counter, rate_limit_storage, checks>>

\* the store call of add_chat_message that is next at each position
StoreCallAt(r) ==
    IF r.pc = "add_chat_message" /\ r.user_message # <<>> /\ r.user_uuid # ""
    THEN "get_session_by_uuid"
    ELSE IF r.pc = "store_user_message" THEN "add_message_user"
    ELSE IF r.pc = "read_user" THEN "get_user_by_uuid"
    ELSE IF r.pc = "store_ai_response" /\ ShouldStore(r.result.text)
    THEN "add_message_assistant"
    ELSE "none"

\* add_chat_message when the store call it is at raises: the append of the
\* AI response is inside the inner try, whose handler makes the error text
\* the reply and goes on to the success response; the other calls are
\* caught by the outer handler, which answers 500
storage_error(c) ==
    LET r == req[c]
        call == StoreCallAt(r)
        failed == [r EXCEPT !.failed_call = call]
        ai_response == <<ErrorPrefix, "storage error">>
    IN
    /\ call # "none"
    /\ IF call = "add_message_assistant"
       THEN Set(c, Done(failed, [Resp(200, "ai_response") EXCEPT !.content = ai_response]))
       ELSE Set(c, Done(failed, Resp(500, "error")))
    /\ UNCHANGED <<now, variant, users, chat_sessions, chat_messages, chat_cache,
                   cache_expiry, uuid_counter, rate_limit_storage, checks>>

\* a request to a path outside the chat routes: only the middleware matters
other_route(c) ==
    LET r == req[c] IN
    /\ r.pc = "other"
    /\ Set(c, Done(r, Resp(200, "other")))
    /\ UNCHANGED <<now, variant, users, chat_sessions, chat_messages, chat_cache,
                   cache_expiry, uuid_counter, rate_limit_storage, checks>>

\* time passes
Tick ==
    /\ current_minute(now) < MaxMinutes
    /\ now' = now + SecondsPerMinute
    /\ UNCHANGED <<variant, users, chat_sessions, chat_messages, chat_cache, cache_expiry,
                   rate_limit_storage, uuid_counter, req, checks>>

\* time passes, for longer than the cache keeps an entry
TickLong ==
    /\ current_minute(now) < MaxCacheMinutes
    /\ now' = now + SecondsPerMinute
    /\ UNCHANGED <<variant, users, chat_sessions, chat_messages, chat_cache, cache_expiry,
                   rate_limit_storage, uuid_counter, req, checks>>

(************************** the specifications *****************************)
LocalIp == "127.0.0.1"
RemoteIp == "10.0.0.1"

UserTexts == {<<"hello">>}
Requesters == UserIds \cup {""}

Lee == UserRow("Lee", JsonDumps(JDict({<<"hobby", "chess">>})))
Ann == UserRow("Ann", JsonDumps(JDict({<<"city", "Oslo">>})))
Unfinished == UserRow(NoneVal, RawNone)     \* as generate_uuid creates it

Fields(route, ip, user_uuid, session_id, user_message) ==
    [route |-> route, ip |-> ip, path |-> RoutePath(route, session_id),
     user_uuid |-> user_uuid, session_id |-> session_id, user_message |-> user_message]

ArriveCreate(c, ip, u) ==
    /\ variant \in {"app", "merged"}
    /\ uuid_counter < MaxSessions
    /\ Arrive(c, Fields("create_chat_session", ip, u, 0, <<>>))

ArriveTurn(c, ip, u, sid, msg) ==
    /\ variant \in {"app", "merged"}
    /\ AppendedRows(chat_messages) + 2 <= MaxMessages
    /\ Arrive(c, Fields("add_chat_message", ip, u, sid, msg))

ArriveCreateMessage(c, ip, u, chat_id, msg) ==
    /\ variant = "merged"
    /\ AppendedRows(chat_messages) + 2 <= MaxMessages
    /\ Arrive(c, Fields("create_message", ip, u, chat_id, msg))

ArriveList(c, ip, u, sid) ==
    /\ variant \in {"app", "merged"}
    /\ Arrive(c, Fields("session_messages_handler", ip, u, sid, <<>>))

ArriveGetChat(c, ip, u, sid) ==
    /\ variant \in {"app", "merged"}
    /\ Arrive(c, Fields("get_chat", ip, u, sid, <<>>))

ArriveDelete(c, ip, u, sid) ==
    /\ variant \in {"app", "merged"}
    /\ Arrive(c, Fields("delete_chat", ip, u, sid, <<>>))

ArriveSocket(c, ip, u, sid) ==
    /\ variant = "new"
    /\ Arrive(c, Fields("chat_socket", ip, u, sid, <<>>))

ArriveAdminDelete(c, ip, sid, admin_token) ==
    /\ variant = "app"
    /\ Arrive(c, [route |-> "admin_delete_session", ip |-> ip,
                  path |-> RoutePath("admin_delete_session", sid),
                  session_id |-> sid, admin_token |-> admin_token])

ArriveReset(c, ip, u) ==
    /\ variant = "app"
    /\ Arrive(c, [route |-> "reset_device", ip |-> ip,
                  path |-> RoutePath("reset_device", 0), user_uuid |-> u])

ArriveOther(c, ip, path) ==
    Arrive(c, [route |-> "other", ip |-> ip, path |-> path])

ArriveProfile(c, ip, u, name, profile_data) ==
    Arrive(c, [route |-> "update_profile", ip |-> ip,
               path |-> RoutePath("update_profile", 0),
               user_uuid |-> u, body_name |-> name, body_profile |-> profile_data])

InitStore ==
    /\ now = 0
    /\ chat_sessions = [s \in SessionIds |-> NoSession]
    /\ chat_messages = <<>>
    /\ chat_cache = [s \in SessionIds |-> NoCacheEntry]
    /\ cache_expiry = [s \in SessionIds |-> NoExpiry]
    /\ rate_limit_storage = [k \in Ips \X Segments |-> NoBucket]
    /\ uuid_counter = 0
    /\ req = [c \in Conns |-> IdleReq]
    /\ checks = [k \in Ips \X RouteClasses |-> NoChecks]

\* the steps of a message turn
TurnSteps(c, accepts, key_sets, outcomes) ==
    \/ add_chat_message(c)
    \/ \E accepted \in accepts : store_user_message(c, accepted)
    \/ read_user(c)
    \/ \E api_key_set \in key_sets : llm_response(c, api_key_set)
    \/ \E outcome \in outcomes, content \in ProviderTexts : post(c, outcome, content)
    \/ mock_llm_response_call(c)
    \/ store_ai_response(c)

\* Message turns, called from the local (whitelisted) client
Init ==
    /\ InitStore
    /\ variant \in {"app", "merged"}
    /\ users \in {[u \in UserIds |-> IF u = "u1" THEN row ELSE Ann] :
                     row \in {Lee, Unfinished, NoUser}}

Next ==
    \E c \in Conns :
       \/ \E u \in UserIds : ArriveCreate(c, LocalIp, u)
       \/ \E u \in Requesters, sid \in SessionIds, msg \in UserTexts \cup {<<>>} :
             ArriveTurn(c, LocalIp, u, sid, msg)
       \/ create_chat_session(c)
       \/ TurnSteps(c, BOOLEAN, BOOLEAN, ProviderOutcomes)

Spec == Init /\ [][Next]_vars

\* Message turns of src/app whose handler, once started, runs on: every
\* await of add_chat_message returns (the database calls are local, the
\* provider request has a 60 second timeout), so a step that can be taken
\* is eventually taken
InitLive ==
    /\ InitStore
    /\ variant = "app"
    /\ users \in {[u \in UserIds |-> IF u = "u1" THEN row ELSE Ann] :
                     row \in {Lee, Unfinished, NoUser}}

SpecLive ==
    /\ InitLive
    /\ [][Next]_vars
    /\ WF_vars(\E c \in Conns : TurnSteps(c, BOOLEAN, BOOLEAN, ProviderOutcomes))

\* Message turns of src/app against a database whose calls can fail
NextStorage ==
    \/ Next
    \/ \E c \in Conns : storage_error(c)

SpecStorage == InitLive /\ [][NextStorage]_vars

\* Message turns of src/app on a database in which an earlier run left a
\* conversation longer than the history limit: session 1 of u1, user and
\* AI messages in turn, each with its own text and its own created_at
PriorRow(i) ==
    MessageRow(1, <<ToString(i)>>, i % 2 = 1, i - PriorMessages - 1,
               IF i % 2 = 1 THEN "User" ELSE "Content")

InitContext ==
    /\ now = 0
    /\ variant = "app"
    /\ users = [u \in UserIds |-> IF u = "u1" THEN Lee ELSE Ann]
    /\ chat_sessions = [s \in SessionIds |->
          IF s = 1 THEN [exists |-> TRUE, user_uuid |-> "u1",
                         created_at |-> 0 - PriorMessages - 1, updated_at |-> 0 - 1]
          ELSE NoSession]
    /\ chat_messages = [i \in 1..PriorMessages |-> PriorRow(i)]
    /\ chat_cache = [s \in SessionIds |-> NoCacheEntry]
    /\ cache_expiry = [s \in SessionIds |-> NoExpiry]
    /\ rate_limit_storage = [k \in Ips \X Segments |-> NoBucket]
    /\ uuid_counter = 1
    /\ req = [c \in Conns |-> IdleReq]
    /\ checks = [k \in Ips \X RouteClasses |-> NoChecks]

NextContext ==
    \/ Tick
    \/ \E c \in Conns :
          \/ \E u \in UserIds, sid \in SessionIds, msg \in UserTexts :
                ArriveTurn(c, LocalIp, u, sid, msg)
          \/ TurnSteps(c, {TRUE}, BOOLEAN, ProviderOutcomes)

SpecContext == InitContext /\ [][NextContext]_vars

\* Reads, turns and deletions by the owner and by another user; the "new"
\* copy is reached through its chat socket
InitAccess ==
    /\ InitStore
    /\ variant \in {"app", "new"}
    /\ users = [u \in UserIds |-> IF u = "u1" THEN Lee ELSE Ann]

NextAccess ==
    \E c \in Conns :
       \/ \E u \in UserIds : ArriveCreate(c, LocalIp, u)
       \/ \E u \in UserIds, sid \in SessionIds, msg \in UserTexts :
             ArriveTurn(c, LocalIp, u, sid, msg)
       \/ \E u \in UserIds, sid \in SessionIds : ArriveList(c, LocalIp, u, sid)
       \/ \E u \in UserIds, sid \in SessionIds : ArriveGetChat(c, LocalIp, u, sid)
       \/ \E u \in UserIds, sid \in SessionIds : ArriveDelete(c, LocalIp, u, sid)
       \/ \E u \in UserIds, sid \in SessionIds : ArriveSocket(c, LocalIp, u, sid)
       \/ create_chat_session(c)
       \/ add_chat_message(c)
       \/ store_user_message(c, TRUE)
       \/ read_user(c)
       \/ llm_response(c, TRUE)
       \/ \E content \in ProviderTexts : post(c, "ok", content)
       \/ store_ai_response(c)
       \/ session_messages_handler(c)
       \/ list_messages(c)
       \/ get_chat(c)
       \/ get_chat_messages(c)
       \/ delete_chat(c)
       \/ clear_chat_cache(c)
       \/ chat_socket(c)

SpecAccess == InitAccess /\ [][NextAccess]_vars

\* The session cache: one user creates, writes, reads and deletes sessions
\* while time passes
InitCache ==
    /\ InitStore
    /\ variant = "app"
    /\ users = [u \in UserIds |-> IF u = "u1" THEN Lee ELSE Ann]

NextCache ==
    \/ Tick
    \/ \E c \in Conns :
          \/ uuid_counter < MaxCacheSessions /\ ArriveCreate(c, LocalIp, "u1")
          \/ \E sid \in SessionIds : ArriveTurn(c, LocalIp, "u1", sid, <<"hello">>)
          \/ \E sid \in SessionIds : ArriveGetChat(c, LocalIp, "u1", sid)
          \/ \E sid \in SessionIds : ArriveDelete(c, LocalIp, "u1", sid)
          \/ create_chat_session(c)
          \/ add_chat_message(c)
          \/ store_user_message(c, TRUE)
          \/ read_user(c)
          \/ llm_response(c, FALSE)
          \/ mock_llm_response_call(c)
          \/ store_ai_response(c)
          \/ get_chat(c)
          \/ get_chat_messages(c)
          \/ delete_chat(c)
          \/ clear_chat_cache(c)

SpecCache == InitCache /\ [][NextCache]_vars

\* The profile gate over the profiles that profile updates leave in the
\* store, starting from no profile and from a generated one
InitGate ==
    /\ InitStore
    /\ variant = "app"
    /\ users \in {[u \in UserIds |-> IF u = "u1" THEN row ELSE Ann] : row \in {NoUser, Unfinished}}

NextGate ==
    \E c \in Conns :
       \/ ArriveCreate(c, LocalIp, "u1")
       \/ \E sid \in SessionIds : ArriveTurn(c, LocalIp, "u1", sid, <<"hello">>)
       \/ \E name \in {"", "Lee"}, profile_data \in {EmptyDict, JList, JDict({<<"city", "Oslo">>})} :
             ArriveProfile(c, LocalIp, "u1", name, profile_data)
       \/ create_chat_session(c)
       \/ add_chat_message(c)
       \/ store_user_message(c, TRUE)
       \/ read_user(c)
       \/ llm_response(c, TRUE)
       \/ \E content \in ProviderTexts : post(c, "ok", content)
       \/ store_ai_response(c)
       \/ update_profile(c)

SpecGate == InitGate /\ [][NextGate]_vars

\* The rate limiter alone: requests of a remote and of the local client on
\* paths of the default class and of the login class, while time passes
RatePaths ==
    {<<"api", "chat", "sessions">>,      \* default class, bucket "chat"
     <<"api", "chat", "login">>,         \* login class (ends with /login), bucket "chat"
     <<"home">>}                         \* not under /api/

InitRate ==
    /\ InitStore
    /\ variant = "app"
    /\ users = [u \in UserIds |-> IF u = "u1" THEN Lee ELSE Ann]

NextRate ==
    \/ Tick
    \/ \E c \in Conns :
          \/ \E ip \in Ips, path \in RatePaths : ArriveOther(c, ip, path)
          \/ other_route(c)

SpecRate == InitRate /\ [][NextRate]_vars

\* The chat routes called by a remote client, which the limiter counts
InitAdmit ==
    /\ InitStore
    /\ variant = "app"
    /\ users = [u \in UserIds |-> IF u = "u1" THEN Lee ELSE Ann]

NextAdmit ==
    \E c \in Conns :
       \/ ArriveCreate(c, RemoteIp, "u1")
       \/ \E sid \in SessionIds : ArriveTurn(c, RemoteIp, "u1", sid, <<"hello">>)
       \/ \E sid \in SessionIds : ArriveGetChat(c, RemoteIp, "u1", sid)
       \/ \E sid \in SessionIds : ArriveDelete(c, RemoteIp, "u1", sid)
       \/ create_chat_session(c)
       \/ add_chat_message(c)
       \/ store_user_message(c, TRUE)
       \/ read_user(c)
       \/ llm_response(c, TRUE)
       \/ \E content \in ProviderTexts : post(c, "ok", content)
       \/ store_ai_response(c)
       \/ get_chat(c)
       \/ get_chat_messages(c)
       \/ delete_chat(c)
       \/ clear_chat_cache(c)

SpecAdmit == InitAdmit /\ [][NextAdmit]_vars

\* The message store: one user appends messages to sessions through
\* message turns and lists them, while time passes
StoreTexts == {<<"hello">>, <<"bye">>}

InitMessages ==
    /\ InitStore
    /\ variant = "app"
    /\ users = [u \in UserIds |-> IF u = "u1" THEN Lee ELSE Ann]

NextMessages ==
    \/ Tick
    \/ \E c \in Conns :
          \/ uuid_counter < MaxCacheSessions /\ ArriveCreate(c, LocalIp, "u1")
          \/ \E sid \in SessionIds, msg \in StoreTexts : ArriveTurn(c, LocalIp, "u1", sid, msg)
          \/ \E sid \in SessionIds : ArriveList(c, LocalIp, "u1", sid)
          \/ create_chat_session(c)
          \/ add_chat_message(c)
          \/ store_user_message(c, TRUE)
          \/ read_user(c)
          \/ llm_response(c, FALSE)
          \/ mock_llm_response_call(c)
          \/ store_ai_response(c)
          \/ session_messages_handler(c)
          \/ list_messages(c)

SpecMessages == InitMessages /\ [][NextMessages]_vars

\* Deletions: by the chat route, by the admin route and by the reset of a
\* user, among sessions of two users that hold messages
InitDelete ==
    /\ InitStore
    /\ variant = "app"
    /\ users \in {[u \in UserIds |-> IF u = "u1" THEN row ELSE Ann] : row \in {Lee, NoUser}}

NextDelete ==
    \E c \in Conns :
       \/ \E u \in UserIds : ArriveCreate(c, LocalIp, u)
       \/ \E u \in UserIds, sid \in SessionIds : ArriveTurn(c, LocalIp, u, sid, <<"hello">>)
       \/ \E u \in UserIds, sid \in SessionIds : ArriveDelete(c, LocalIp, u, sid)
       \/ \E sid \in SessionIds, admin_token \in BOOLEAN :
             ArriveAdminDelete(c, LocalIp, sid, admin_token)
       \/ \E u \in UserIds : ArriveReset(c, LocalIp, u)
       \/ create_chat_session(c)
       \/ add_chat_message(c)
       \/ store_user_message(c, TRUE)
       \/ read_user(c)
       \/ llm_response(c, FALSE)
       \/ mock_llm_response_call(c)
       \/ store_ai_response(c)
       \/ delete_chat(c)
       \/ clear_chat_cache(c)
       \/ admin_delete_session(c)
       \/ reset_device(c)

SpecDelete == InitDelete /\ [][NextDelete]_vars

\* The LLM client called through generate_async, against a provider that
\* answers each attempt in any way
RetryAfterHeaders == {<<>>, <<"0">>, <<"2">>, <<"s", "o", "o", "n">>}
ErrorBodies == {"error_object", "text"}

InitClient ==
    /\ InitStore
    /\ variant = "app"
    /\ users = [u \in UserIds |-> IF u = "u1" THEN Lee ELSE Ann]

NextClient ==
    \/ Tick
    \/ \E c \in Conns :
          \/ generate_async(c)
          \/ \E outcome \in ProviderOutcomes, content \in ProviderTexts,
                header \in RetryAfterHeaders, error_body \in ErrorBodies :
                make_request(c, outcome, content, header, error_body)

SpecClient == InitClient /\ [][NextClient]_vars

\* Message turns of a user who writes before and after completing the
\* profile: the turns before it store the user message and are redirected
EchoTexts == StoreTexts \cup {<<"hello", Blank>>}

InitEcho ==
    /\ InitStore
    /\ variant = "app"
    /\ users = [u \in UserIds |-> IF u = "u1" THEN Unfinished ELSE Ann]

NextEcho ==
    \E c \in Conns :
       \/ ArriveCreate(c, LocalIp, "u1")
       \/ \E sid \in SessionIds, msg \in EchoTexts : ArriveTurn(c, LocalIp, "u1", sid, msg)
       \/ ArriveProfile(c, LocalIp, "u1", "Lee", JDict({<<"city", "Oslo">>}))
       \/ create_chat_session(c)
       \/ add_chat_message(c)
       \/ store_user_message(c, TRUE)
       \/ read_user(c)
       \/ llm_response(c, TRUE)
       \/ \E content \in ProviderTexts : post(c, "ok", content)
       \/ store_ai_response(c)
       \/ update_profile(c)

SpecEcho == InitEcho /\ [][NextEcho]_vars

\* The session cache over more than its time to live: sessions are created,
\* read and deleted while minutes pass
NextExpiry ==
    \/ TickLong
    \/ \E c \in Conns :
          \/ uuid_counter < MaxCacheSessions /\ \E u \in UserIds : ArriveCreate(c, LocalIp, u)
          \/ \E u \in UserIds, sid \in SessionIds : ArriveGetChat(c, LocalIp, u, sid)
          \/ \E sid \in SessionIds : ArriveDelete(c, LocalIp, "u1", sid)
          \/ create_chat_session(c)
          \/ get_chat(c)
          \/ get_chat_messages(c)
          \/ delete_chat(c)
          \/ clear_chat_cache(c)

SpecExpiry == InitCache /\ [][NextExpiry]_vars

\* Two requests at a time: Sanic runs each handler as a task of one event
\* loop, and a handler gives way to the other at each await (the database
\* calls and the provider request)
TwoConns == {1, 2}

InitRace ==
    /\ now = 0
    /\ variant = "app"
    /\ users = [u \in UserIds |-> IF u = "u1" THEN Lee ELSE Ann]
    /\ chat_sessions = [s \in SessionIds |-> NoSession]
    /\ chat_messages = <<>>
    /\ chat_cache = [s \in SessionIds |-> NoCacheEntry]
    /\ cache_expiry = [s \in SessionIds |-> NoExpiry]
    /\ rate_limit_storage = [k \in Ips \X Segments |-> NoBucket]
    /\ uuid_counter = 0
    /\ req = [c \in TwoConns |-> IdleReq]
    /\ checks = [k \in Ips \X RouteClasses |-> NoChecks]

NextRace ==
    \E c \in TwoConns :
       \/ uuid_counter < MaxCacheSessions /\ ArriveCreate(c, LocalIp, "u1")
       \/ \E msg \in StoreTexts : ArriveTurn(c, LocalIp, "u1", 1, msg)
       \/ create_chat_session(c)
       \/ add_chat_message(c)
       \/ store_user_message(c, TRUE)
       \/ read_user(c)
       \/ llm_response(c, TRUE)
       \/ \E content \in ProviderTexts : post(c, "ok", content)
       \/ store_ai_response(c)

SpecRace == InitRace /\ [][NextRace]_vars

\* Messages submitted through both routes that take them: add_chat_message
\* (src/app and the merged copy) and create_message (the merged copy)
NextSubmit ==
    \E c \in Conns :
       \/ \E u \in UserIds : ArriveCreate(c, LocalIp, u)
       \/ \E u \in Requesters, sid \in SessionIds, msg \in UserTexts \cup {<<>>} :
             ArriveTurn(c, LocalIp, u, sid, msg)
       \/ \E u \in Requesters, chat_id \in {0} \cup SessionIds, msg \in UserTexts \cup {<<>>} :
             ArriveCreateMessage(c, LocalIp, u, chat_id, msg)
       \/ create_chat_session(c)
       \/ TurnSteps(c, BOOLEAN, BOOLEAN, {"ok", "http_500"})
       \/ create_message(c)
       \/ create_message_store(c)
       \/ create_message_store_ai(c)

SpecSubmit == Init /\ [][NextSubmit]_vars

(*************************** the prompt composer ***************************)
\* A prompt is a sequence of lines and a line a sequence of strings: the
\* literal pieces of the template and the values put between them.  The
\* label of a field is written as the language's bullet followed by the
\* field's key.
MaxProfileFields == 1    \* entries of a profile's fields mapping

\* the keys generate_prompt_from_user_model reads from profile_data
KnownFields ==
    {"location_at_20", "occupation_at_20", "education", "major_at_20",
     "hobbies_at_20", "important_people_at_20", "significant_events_at_20",
     "concerns_at_20", "dreams_at_20", "family_relations_at_20",
     "health_at_20", "habits_at_20", "regrets_at_20", "basic_data",
     "personality"}

\* the column users.age: NULL, an integer, or a text that is no number
AgeNone == [kind |-> "None", n |-> 0]
AgeInt(n) == [kind |-> "int", n |-> n]
AgeText == [kind |-> "str", n |-> 0]

\* bool(age)
AgeTruthy(age) == IF age.kind = "int" THEN age.n # 0 ELSE age.kind = "str"
\* str(age).isdigit()
AgeIsDigit(age) == age.kind = "int" /\ age.n >= 0
\* str(age)
AgeStr(age) ==
    IF age.kind = "int" THEN ToString(age.n)
    ELSE IF age.kind = "None" THEN "None" ELSE "abc"

\* an optional year: None or an integer
NoYear == [none |-> TRUE, n |-> 0]
Year(n) == [none |-> FALSE, n |-> n]
\* bool(year)
YearTruthy(y) == ~y.none /\ y.n # 0

\* current_year - int(age) if age and str(age).isdigit() else None
BirthYear(age, current_year) ==
    IF AgeTruthy(age) /\ AgeIsDigit(age) THEN Year(current_year - age.n) ELSE NoYear

\* birth_year + 20 if birth_year else None
YearAt20(birth_year) ==
    IF YearTruthy(birth_year) THEN Year(birth_year.n + 20) ELSE NoYear

\* profile_data.get(key, "")
GetField(entries, key) ==
    IF \E e \in entries : e[1] = key
    THEN (CHOOSE e \in entries : e[1] = key)[2]
    ELSE ""

\* value or placeholder
Or(value, placeholder) == IF value # "" THEN value ELSE placeholder
\* year or placeholder, as the text put into the prompt
YearOr(y, placeholder) == IF YearTruthy(y) THEN ToString(y.n) ELSE placeholder
Bullet(language) == IF language = "zh" THEN "zh:- " ELSE "- "
FieldLabel(language, key) == <<Bullet(language), key, ": ">>
FieldLine(language, key, value) == FieldLabel(language, key) \o <<value>>
SectionHeader(language, section) ==
    <<"## ", (IF language = "zh" THEN "zh:" ELSE "en:"), section>>

\* the placeholders of a language
Placeholder(language, what) ==
    IF language = "zh"
    THEN CASE what = "name" -> "zh:user"
           [] what = "age" -> "zh:unknown"
           [] what = "birth_year" -> "zh:unknown"
           [] what = "year_at_20" -> "zh:at 20"
           [] what = "location_at_20" -> "zh:where you live"
           [] what = "important_people_at_20" -> "zh:friends, family and other important people"
           [] what = "concerns_at_20" -> "zh:worries of a typical 20 year old"
           [] what = "dreams_at_20" -> "zh:hopes and dreams for the future"
    ELSE CASE what = "year_at_20" -> "your time"
           [] what = "location_at_20" -> "where you lived"
           [] what = "important_people_at_20" -> "friends, family, and other important people"
           [] what = "concerns_at_20" -> "typical concerns of a 20-year-old"
           [] what = "dreams_at_20" -> "hopes and dreams for the future"

\* line.strip() of a line of pieces: is anything left
LineIsBlank(line) == \A i \in 1..Len(line) : line[i] = ""
\* line.strip().startswith('//')
CommentValues == {"//todo"}
LineIsComment(line) ==
    \E i \in 1..Len(line) :
        /\ line[i] \in CommentValues
        /\ \A j \in 1..(i - 1) : line[j] = ""

\* the lines kept of the formatted template
RECURSIVE KeptLines(_)
KeptLines(lines) ==
    IF lines = <<>> THEN <<>>
    ELSE IF LineIsComment(Head(lines)) \/ LineIsBlank(Head(lines))
         THEN KeptLines(Tail(lines))
         ELSE <<Head(lines)>> \o KeptLines(Tail(lines))

\* the closing section, the same text in the template and in the built prompts
GuidelineLines(language, name, year_text, concerns, dreams, important_people, location) ==
    << SectionHeader(language, "guidelines"),
       <<"As ", name, " at age 20, you should:">>,
       <<"1. respond with the tone of a 20-year-old">>,
       <<"2. only discuss events up to ", year_text>>,
       <<"3. do not mention future events">>,
       <<"4. reflect the values you had at 20, considering:">>,
       <<"   - concerns: ", concerns>>,
       <<"   - expectations: ", dreams>>,
       <<"   - relationships: ", important_people>>,
       <<"5. asked about the future, express hopes only">>,
       <<"6. reflect your life in ", location>> >>

\* ZH_PROMPT_TEMPLATE.format(...), line by line
ZhTemplateLines(name, age, birth_year, year_at_20, f) ==
    LET zh == "zh"
        year_text == YearOr(year_at_20, Placeholder(zh, "year_at_20"))
        location == Or(f["location_at_20"], Placeholder(zh, "location_at_20"))
        important_people ==
            Or(f["important_people_at_20"], Placeholder(zh, "important_people_at_20"))
        concerns == Or(f["concerns_at_20"], Placeholder(zh, "concerns_at_20"))
        dreams == Or(f["dreams_at_20"], Placeholder(zh, "dreams_at_20"))
        shown_name == Or(name, Placeholder(zh, "name"))
    IN << <<"# ", "zh:", "character at 20: ", shown_name>>,
          <<"">>,
          SectionHeader(zh, "basic"),
          FieldLine(zh, "name", shown_name),
          <<Bullet(zh), "age", ": ",
            (IF AgeTruthy(age) THEN AgeStr(age) ELSE Placeholder(zh, "age")),
            " born in ", YearOr(birth_year, Placeholder(zh, "birth_year"))>>,
          <<Bullet(zh), "year_at_20", ": ", year_text>>,
          FieldLine(zh, "location_at_20", location),
          <<"">>,
          SectionHeader(zh, "occupation"),
          FieldLine(zh, "occupation_at_20", f["occupation_at_20"]),
          FieldLine(zh, "education", f["education"]),
          FieldLine(zh, "major_at_20", f["major_at_20"]),
          <<"">>,
          SectionHeader(zh, "personal"),
          FieldLine(zh, "hobbies_at_20", f["hobbies_at_20"]),
          FieldLine(zh, "important_people_at_20", important_people),
          FieldLine(zh, "family_relations_at_20", f["family_relations_at_20"]),
          FieldLine(zh, "health_at_20", f["health_at_20"]),
          FieldLine(zh, "habits_at_20", f["habits_at_20"]),
          <<"">>,
          SectionHeader(zh, "mental"),
          FieldLine(zh, "personality", f["personality"]),
          FieldLine(zh, "concerns_at_20", concerns),
          FieldLine(zh, "dreams_at_20", dreams),
          FieldLine(zh, "regrets_at_20", f["regrets_at_20"]),
          <<"">>,
          SectionHeader(zh, "events"),
          <<f["significant_events_at_20"]>>,
          <<"">>,
          SectionHeader(zh, "background"),
          <<f["basic_data"]>>,
          <<"">> >>
       \o GuidelineLines(zh, shown_name, year_text, concerns, dreams,
                         important_people, location)

Opt(cond, lines) == IF cond THEN lines ELSE <<>>

\* the prompt built line by line, each field under its own condition
BuiltLines(language, name, age, birth_year, year_at_20, f) ==
    LET Has(key) == f[key] # ""
        Field(key) == Opt(Has(key), <<FieldLine(language, key, f[key])>>)
    IN << <<"# ", (IF language = "zh" THEN "zh:" ELSE "en:"), "character at 20: ", name>>,
          <<"">>,
          SectionHeader(language, "basic") >>
       \o Opt(name # "", <<FieldLine(language, "name", name)>>)
       \o Opt(AgeTruthy(age) /\ YearTruthy(birth_year) /\ YearTruthy(year_at_20),
              << <<Bullet(language), "age", ": ", AgeStr(age),
                   " born in ", ToString(birth_year.n)>>,
                 <<Bullet(language), "year_at_20", ": ", ToString(year_at_20.n)>> >>)
       \o Field("location_at_20")
       \o Opt(Has("occupation_at_20") \/ Has("education") \/ Has("major_at_20"),
              <<SectionHeader(language, "occupation")>>
              \o Field("occupation_at_20") \o Field("education") \o Field("major_at_20"))
       \o <<SectionHeader(language, "personal")>>
       \o Field("hobbies_at_20") \o Field("important_people_at_20")
       \o Field("family_relations_at_20") \o Field("health_at_20") \o Field("habits_at_20")
       \o Opt(Has("personality") \/ Has("concerns_at_20") \/ Has("dreams_at_20"),
              <<SectionHeader(language, "mental")>>
              \o Field("personality") \o Field("concerns_at_20")
              \o Field("dreams_at_20") \o Field("regrets_at_20"))
       \o Opt(Has("significant_events_at_20"),
              <<SectionHeader(language, "events"), <<f["significant_events_at_20"]>> >>)
       \o Opt(Has("basic_data"),
              <<SectionHeader(language, "background"), <<f["basic_data"]>> >>)
       \o GuidelineLines(language, name,
                         YearOr(year_at_20, Placeholder(language, "year_at_20")),
                         Or(f["concerns_at_20"], Placeholder(language, "concerns_at_20")),
                         Or(f["dreams_at_20"], Placeholder(language, "dreams_at_20")),
                         Or(f["important_people_at_20"],
                            Placeholder(language, "important_people_at_20")),
                         Or(f["location_at_20"], Placeholder(language, "location_at_20")))

\* what a composition yields: the derived years and the prompt
Composed(birth_year, year_at_20, prompt) ==
    [birth_year |-> birth_year, year_at_20 |-> year_at_20, prompt |-> prompt]

\* utils/llm_client.py: generate_prompt_from_user_model
generate_prompt_from_user_model(user_data, language, current_year) ==
    LET name == IF user_data.name = NoneVal THEN "" ELSE user_data.name
        age == user_data.age
        birth_year == BirthYear(age, current_year)
        year_at_20 == YearAt20(birth_year)
        f == [key \in KnownFields |-> GetField(user_data.profile_data.entries, key)]
    IN Composed(birth_year, year_at_20,
           IF language = "zh"
           THEN KeptLines(ZhTemplateLines(name, age, birth_year, year_at_20, f))
           ELSE BuiltLines(language, name, age, birth_year, year_at_20, f))

EnglishOnlyPrompt == << <<"You are simulating a conversation with a 20-year-old version of the user.">> >>

\* utils/llm_client.py: create_system_prompt, for user data that is there
create_system_prompt_lines(user_data, language, current_year) ==
    IF language # "zh"
    THEN Composed(NoYear, NoYear, EnglishOnlyPrompt)
    ELSE generate_prompt_from_user_model(user_data, "zh", current_year)

AiCurrentYear == 2024    \* ai.py: current_year = 2024

\* ai.py: generate_prompt_from_user_model, which reads the name and the
\* fields from one flat mapping
ai_generate_prompt_from_user_model(user_data, language) ==
    LET name == IF user_data.name = NoneVal THEN "" ELSE user_data.name
        age == user_data.age
        birth_year == BirthYear(age, AiCurrentYear)
        year_at_20 == YearAt20(birth_year)
        f == [key \in KnownFields |-> GetField(user_data.profile_data.entries, key)]
    IN Composed(birth_year, year_at_20,
                BuiltLines(language, name, age, birth_year, year_at_20, f))

\* the inputs of a composition
CurrentYears == {2024, 2025}
Ages == {AgeNone, AgeText} \cup {AgeInt(n) : n \in {0, 1, 20, 45, 2024, 2025}}
Names == {NoneVal, "Lee"}
FieldKeys == {"hobby", "hobbies_at_20", "location_at_20", "occupation_at_20",
              "significant_events_at_20", "concerns_at_20"}
FieldValues == {"", "chess", "//todo"}
IsMapping(entries) == \A e1, e2 \in entries : e1[1] = e2[1] => e1 = e2
FieldMappings ==
    {entries \in SUBSET (FieldKeys \X FieldValues) :
        Cardinality(entries) <= MaxProfileFields /\ IsMapping(entries)}
Languages == {"zh", "en"}

NothingComposed == Composed(NoYear, NoYear, <<>>)

PromptInput(composer, user_data, language, current_year) ==
    [pc |-> "compose", composer |-> composer, user_data |-> user_data,
     language |-> language, current_year |-> current_year,
     composed |-> NothingComposed]

InitPrompt ==
    /\ now = 0
    /\ variant = "app"
    /\ users = [u \in UserIds |-> NoUser]
    /\ chat_sessions = [s \in SessionIds |-> NoSession]
    /\ chat_messages = <<>>
    /\ chat_cache = [s \in SessionIds |-> NoCacheEntry]
    /\ cache_expiry = [s \in SessionIds |-> NoExpiry]
    /\ rate_limit_storage = [k \in Ips \X Segments |-> NoBucket]
    /\ uuid_counter = 0
    /\ checks = [k \in Ips \X RouteClasses |-> NoChecks]
    /\ req \in [Conns ->
          {PromptInput(composer, [none |-> FALSE, name |-> name, age |-> age,
                                  profile_data |-> JDict(entries)],
                       language, current_year) :
              composer \in {"llm_client", "create_system_prompt", "ai"},
              name \in Names, age \in Ages, entries \in FieldMappings,
              language \in Languages, current_year \in CurrentYears}]

PromptUnchanged ==
    UNCHANGED <<now, variant, users, chat_sessions, chat_messages, chat_cache,
                cache_expiry, rate_limit_storage, uuid_counter, checks>>

\* a call of generate_prompt_from_user_model of utils/llm_client.py
compose_llm_client(c) ==
    LET r == req[c] IN
    /\ r.pc = "compose"
    /\ r.composer = "llm_client"
    /\ req' = [req EXCEPT ![c] = [r EXCEPT !.pc = "composed",
                  !.composed = generate_prompt_from_user_model(
                                   r.user_data, r.language, r.current_year)]]
    /\ PromptUnchanged

\* a call of create_system_prompt of utils/llm_client.py
compose_system_prompt(c) ==
    LET r == req[c] IN
    /\ r.pc = "compose"
    /\ r.composer = "create_system_prompt"
    /\ req' = [req EXCEPT ![c] = [r EXCEPT !.pc = "composed",
                  !.composed = create_system_prompt_lines(
                                   r.user_data, r.language, r.current_year)]]
    /\ PromptUnchanged

\* a call of generate_prompt_from_user_model of ai.py
compose_ai(c) ==
    LET r == req[c] IN
    /\ r.pc = "compose"
    /\ r.composer = "ai"
    /\ req' = [req EXCEPT ![c] = [r EXCEPT !.pc = "composed",
                  !.composed = ai_generate_prompt_from_user_model(
                                   r.user_data, r.language)]]
    /\ PromptUnchanged

NextPrompt ==
    \E c \in Conns :
       \/ compose_llm_client(c)
       \/ compose_system_prompt(c)
       \/ compose_ai(c)

SpecPrompt == InitPrompt /\ [][NextPrompt]_vars

\* Two requests at a time on one session: a message turn or a read of the
\* chat on one connection, a delete of the session by its owner, by the
\* administrator or by a reset of the owner on the other
NextInterleave ==
    \E c \in TwoConns :
       \/ uuid_counter < MaxCacheSessions /\ ArriveCreate(c, LocalIp, "u1")
       \/ ArriveTurn(c, LocalIp, "u1", 1, <<"hello">>)
       \/ ArriveGetChat(c, LocalIp, "u1", 1)
       \/ ArriveDelete(c, LocalIp, "u1", 1)
       \/ ArriveAdminDelete(c, LocalIp, 1, TRUE)
       \/ ArriveReset(c, LocalIp, "u1")
       \/ create_chat_session(c)
       \/ add_chat_message(c)
       \/ store_user_message(c, TRUE)
       \/ read_user(c)
       \/ llm_response(c, FALSE)
       \/ mock_llm_response_call(c)
       \/ store_ai_response(c)
       \/ get_chat(c)
       \/ get_chat_messages(c)
       \/ delete_chat(c)
       \/ clear_chat_cache(c)
       \/ admin_delete_session(c)
       \/ reset_device(c)

SpecInterleave == InitRace /\ [][NextInterleave]_vars

\* The rate limiter with two requests at a time: the middleware has no
\* await, so each of its runs is one step, in whichever order the requests
\* of the two connections come
NextRateRace ==
    \/ Tick
    \/ \E c \in TwoConns :
          \/ \E path \in RatePaths : ArriveOther(c, RemoteIp, path)
          \/ other_route(c)

SpecRateRace == InitRace /\ [][NextRateRace]_vars

\* The profile gate while time passes, so that a bump of updated_at shows
NextGateClock ==
    \/ Tick
    \/ NextGate

SpecGateClock == InitGate /\ [][NextGateClock]_vars

(******************************** claims ***********************************)
TurnRoute(r) == r.route = "add_chat_message"

\* C1: every stored ASSISTANT message is the text of a successful provider
\* reply (a Content result); mock, parse-failure, failed-call and
\* provider-terminal replies are never appended.
C1_OnlyContentStored ==
    \A i \in DOMAIN chat_messages :
        ~chat_messages[i].is_user => chat_messages[i].origin = "Content"

\* C2: the context handed to the provider holds no ASSISTANT message that
\* originated as a Degraded or ProviderTerminal result.
C2_NoDegradedInContext ==
    \A c \in Conns : \A i \in DOMAIN req[c].ctx :
        req[c].ctx[i].origin \notin {"Degraded", "ProviderTerminal"}

\* C3: a message turn of a user whose profile is not COMPLETE ends in a
\* redirect response, builds no context, calls no provider and appends no
\* ASSISTANT message.
C3_GateShortCircuits ==
    \A c \in Conns :
        LET r == req[c] IN
        ( /\ TurnRoute(r)
          /\ r.pc \notin {"add_chat_message", "store_user_message"}
          /\ r.resp.status \notin {400, 403, 404, 429}
          /\ ProfileGate(UserData(users[r.user_uuid])) # "COMPLETE" )
        => /\ r.pc \in {"read_user", "done"}
           /\ r.pc = "done" => r.resp.kind = "redirect"
           /\ r.ctx = <<>>
           /\ r.provider_calls = 0
           /\ ~r.ai_stored

\* C7: a request never receives the messages or the metadata of a session
\* owned by another user: a successful read answers the owner only.
C7_ReadsAnswerOwnerOnly ==
    \A c \in Conns :
        LET r == req[c] IN
        (r.pc = "done" /\ r.resp.status = 200) =>
            /\ r.resp.kind = "chat" => r.resp.chat.user_uuid = r.user_uuid
            /\ (r.resp.kind = "messages" /\ chat_sessions[r.session_id].exists)
                  => chat_sessions[r.session_id].user_uuid = r.user_uuid

\* the step of connection c takes something from session s: the session, one
\* of its messages, or its owner
TakesFrom(c, s) ==
    /\ req'[c] # req[c]
    /\ chat_sessions[s].exists
    /\ \/ ~chat_sessions'[s].exists
       \/ chat_sessions'[s].user_uuid # chat_sessions[s].user_uuid
       \/ Len(SelectRows(chat_messages', s)) < Len(SelectRows(chat_messages, s))

\* C8: a session keeps its owner for life: only a request of the owner
\* deletes the session or its messages, and no request changes the owner.
C8_OwnerForLife ==
    [][\A c \in Conns, s \in SessionIds :
          TakesFrom(c, s) =>
              /\ req[c].user_uuid = chat_sessions[s].user_uuid
              /\ chat_sessions'[s].exists =>
                     chat_sessions'[s].user_uuid = chat_sessions[s].user_uuid]_vars

\* a turn or a listing that names an existing session of another user and
\* has passed the validation of its inputs
OnForeignSession(r) ==
    /\ r.pc \in {"add_chat_message", "session_messages_handler"}
    /\ r.user_uuid # ""
    /\ r.pc = "add_chat_message" => r.user_message # <<>>
    /\ chat_sessions[r.session_id].exists
    /\ chat_sessions[r.session_id].user_uuid # r.user_uuid

\* C9: a message turn or a message listing on a session of another user is
\* answered 403 'Session belongs to another user' with a newly minted
\* session id; the foreign session and its messages stay as they were, no
\* message is appended and no provider call is made.
C9_ForeignSessionRefused ==
    [][\A c \in Conns :
          (OnForeignSession(req[c]) /\ req'[c] # req[c]) =>
              /\ req'[c].pc = "done"
              /\ req'[c].resp.status = 403
              /\ req'[c].resp.kind = "Session belongs to another user"
              /\ req'[c].resp.new_session_id > uuid_counter
              /\ ~chat_sessions[req'[c].resp.new_session_id].exists
              /\ chat_sessions'[req[c].session_id] = chat_sessions[req[c].session_id]
              /\ chat_messages' = chat_messages
              /\ req'[c].provider_calls = 0
              /\ ~req'[c].ai_stored]_vars

\* a turn on a session of another user has been refused while that session
\* holds messages
C9_Witness ==
    \E c \in Conns :
        /\ req[c].pc = "done"
        /\ req[c].route = "add_chat_message"
        /\ req[c].resp.status = 403
        /\ req[c].resp.new_session_id # 0
        /\ chat_sessions[req[c].session_id].exists
        /\ chat_sessions[req[c].session_id].user_uuid # req[c].user_uuid
        /\ SelectRows(chat_messages, req[c].session_id) # <<>>

\* the reference classification of a stored profile: its fields mapping is
\* the JSON object held in profile_data, and is empty when there is none
FieldsOf(row) ==
    IF row.profile_data.kind = "json" /\ row.profile_data.value.type = "dict"
    THEN row.profile_data.value.entries
    ELSE {}

RefGate(row) ==
    IF ~row.exists THEN "NO_PROFILE"
    ELSE IF row.name \in {NoneVal, ""} \/ FieldsOf(row) = {} THEN "INCOMPLETE"
    ELSE "COMPLETE"

\* the turn has passed the profile check
GateRan(r) ==
    /\ TurnRoute(r)
    /\ \/ r.pc \in {"llm_response", "post", "mock_llm_response", "store_ai_response"}
       \/ r.pc = "done" /\ r.resp.kind \in {"redirect", "ai_response"}

\* C4: the profile check classifies every stored profile, and as the
\* reference does: absent is NO_PROFILE, an empty name or an empty fields
\* mapping is INCOMPLETE, anything else is COMPLETE; the class is that of the
\* profile read in this request, and only a COMPLETE one lets the turn go on.
C4_GateMatchesReference ==
    \A c \in Conns :
        LET r == req[c] IN
        GateRan(r) =>
            /\ r.user_row = users[r.user_uuid]
            /\ r.gate = RefGate(r.user_row)
            /\ (r.pc = "done" /\ r.resp.kind = "redirect") <=> r.gate # "COMPLETE"

\* a profile with a name whose profile_data is JSON but no mapping has been
\* classified
C4_Witness ==
    \E c \in Conns :
        /\ GateRan(req[c])
        /\ req[c].gate = "INCOMPLETE"
        /\ Truthy(req[c].user_row.name)
        /\ req[c].user_row.profile_data = JsonDumps(JList)

\* C5: for a client that is not allow-listed and a route class with
\* threshold T, the first T checks of a clock minute are admitted, the
\* (T+1)-th is rejected, and the first check of the next minute is admitted.
C5_ThresholdPerClass ==
    \A ip \in Ips \ whitelist, class \in RouteClasses :
        LET entry == checks[<<ip, class>>] IN
        entry.n >= 1 =>
            /\ entry.n <= RateOf(class) => entry.admitted
            /\ entry.n = RateOf(class) + 1 => ~entry.admitted

StoreAndCache == <<users, chat_sessions, chat_messages, chat_cache, cache_expiry, uuid_counter>>

\* C6: a request rejected by the rate limiter is answered with the
\* structured rate-limit error and nothing else runs for it: the store and
\* the cache stay as they were and no provider call is made.
C6_RejectedRunsNothing ==
    [][\A c \in Conns :
          /\ (req'[c] # req[c] /\ req'[c].rate_limited) =>
                /\ req'[c].pc = "done"
                /\ req'[c].resp = Resp(429, "RATE_LIMIT_EXCEEDED")
                /\ req'[c].provider_calls = 0
                /\ req'[c].ctx = <<>>
                /\ ~req'[c].ai_stored
                /\ UNCHANGED StoreAndCache
          /\ (req'[c] # req[c] /\ req[c].rate_limited) => UNCHANGED StoreAndCache]_vars

\* a turn of the owner on an existing session has been rejected by the limiter
C6_Witness ==
    \E c \in Conns :
        /\ req[c].rate_limited
        /\ req[c].route = "add_chat_message"
        /\ chat_sessions[req[c].session_id].exists
        /\ chat_sessions[req[c].session_id].user_uuid = req[c].user_uuid

\* C10: a read of a session through the cache, made after the caller's
\* append or delete has returned, never shows a snapshot taken before that
\* write: what a read returns for an existing session is the stored session.
C10_NoStaleRead ==
    \A c \in Conns :
        LET r == req[c] IN
        ( /\ r.pc = "done"
          /\ r.route = "get_chat"
          /\ r.resp.status = 200
          /\ chat_sessions[r.session_id].exists )
        => /\ r.resp.chat.updated_at = chat_sessions[r.session_id].updated_at
           /\ r.resp.chat.created_at = chat_sessions[r.session_id].created_at

\* a listing of the session's messages has been answered
Listed(r) == r.pc = "done" /\ r.resp.status = 200 /\ r.resp.kind = "messages"

\* C11: after any sequence of appends, the messages a listing returns are in
\* non-decreasing order of created_at.
C11_ListNonDecreasing ==
    \A c \in Conns :
        Listed(req[c]) =>
            \A i, j \in DOMAIN req[c].resp.messages :
                i < j => req[c].resp.messages[i].created_at
                             <= req[c].resp.messages[j].created_at

\* a listing has returned messages stored in two different minutes
C11_Witness ==
    \E c \in Conns :
        /\ Listed(req[c])
        /\ \E i, j \in DOMAIN req[c].resp.messages :
              req[c].resp.messages[i].created_at < req[c].resp.messages[j].created_at

\* C12: messages of a session with the same created_at are listed in the
\* order of their insertion; a turn's USER message comes before the
\* ASSISTANT reply to it even when both are stored in the same clock tick.
C12_TiesInInsertionOrder ==
    \A c \in Conns :
        Listed(req[c]) =>
            LET messages == req[c].resp.messages
                sel == SelectRows(chat_messages, req[c].session_id)
            IN \A i, j \in DOMAIN messages :
                  (i < j /\ messages[i].created_at = messages[j].created_at) =>
                      \E p, q \in DOMAIN sel :
                          p < q /\ sel[p] = messages[i] /\ sel[q] = messages[j]

\* number of the messages of a list that have the content
CountContent(messages, content) ==
    Cardinality({i \in DOMAIN messages : messages[i].content = content})

\* every message of the first list has its place in the second
ListedStill(before, after) ==
    \A row \in {before[i] : i \in DOMAIN before} :
        Cardinality({i \in DOMAIN before : before[i] = row})
            <= Cardinality({i \in DOMAIN after : after[i] = row})

\* C13: appending a USER message with content c to an existing session that
\* holds no message with content c, and then listing the session, gives a
\* list with exactly one message of content c, sent by USER, and with every
\* message that was listed before the append.
C13_AppendThenList ==
    [][\A c \in Conns :
          LET r == req[c]
              s == r.session_id
          IN ( /\ r.pc = "store_user_message"
               /\ req'[c].pc = "read_user"
               /\ chat_sessions[s].exists
               /\ CountContent(SelectRows(chat_messages, s), r.user_message) = 0 )
             => \A after \in get_messages_by_session(chat_messages', s, 0) :
                   /\ CountContent(after, r.user_message) = 1
                   /\ \A i \in DOMAIN after :
                         after[i].content = r.user_message => after[i].is_user
                   /\ \A before \in get_messages_by_session(chat_messages, s, 0) :
                         /\ ListedStill(before, after)
                         /\ Len(after) = Len(before) + 1]_vars

\* a USER message has just been appended to a session that held two other
\* messages
C13_Witness ==
    \E c \in Conns :
        /\ req[c].pc = "read_user"
        /\ Len(SelectRows(chat_messages, req[c].session_id)) = 3
        /\ CountContent(SelectRows(chat_messages, req[c].session_id), req[c].user_message) = 1

\* the step of connection c runs deleteSession on session s
DeletesSession(c, s) ==
    /\ req'[c] # req[c]
    /\ \/ req[c].pc = "delete_chat" /\ s = req[c].session_id
       \/ req[c].pc = "admin_delete_session" /\ req[c].admin_token /\ s = req[c].session_id
       \/ /\ req[c].pc = "reset_device"
          /\ users[req[c].user_uuid].exists
          /\ chat_sessions[s].exists
          /\ chat_sessions[s].user_uuid = req[c].user_uuid

\* C14: deleting a session cascades, whether by the chat route, by the admin
\* route or in the reset of its owner: afterwards the session is not found
\* and no message of it is in the store, and the other sessions and their
\* messages are as before.
C14_DeleteCascades ==
    [][\A c \in Conns :
          (\E s \in SessionIds : DeletesSession(c, s)) =>
              \A s \in SessionIds :
                  IF DeletesSession(c, s)
                  THEN /\ get_session_by_uuid(chat_sessions', s) = NoSession
                       /\ SelectRows(chat_messages', s) = <<>>
                  ELSE /\ chat_sessions'[s] = chat_sessions[s]
                       /\ SelectRows(chat_messages', s) = SelectRows(chat_messages, s)]_vars

\* a user has been reset: none of the sessions minted is theirs any more,
\* while messages of the other user's session are in the store
C14_Witness ==
    \E c \in Conns :
        /\ req[c].pc = "done"
        /\ req[c].route = "reset_device"
        /\ users[req[c].user_uuid].is_reset
        /\ uuid_counter = MaxSessions
        /\ Cardinality({s \in SessionIds : chat_sessions[s].exists}) = 1
        /\ chat_messages # <<>>

\* the provider has answered the turn's request and the reply is decided
Replied(r) == TurnRoute(r) /\ r.pc \in {"store_ai_response", "done"} /\ r.outcome # "none"

\* C16: an HTTP 401 from the provider is terminal: one provider request is
\* made and the reply is the provider-terminal one, not one that
\* mock_llm_response produced.
C16_AuthTerminal ==
    \A c \in Conns :
        (Replied(req[c]) /\ req[c].outcome = "http_401") =>
            /\ req[c].provider_calls = 1
            /\ req[c].mock_calls = 0
            /\ req[c].result.origin = "ProviderTerminal"

\* C17: when the provider's error body says 'Insufficient Balance', one
\* provider request is made, mock_llm_response is not called, and the user
\* gets the insufficient-balance message.
C17_BalanceTerminal ==
    \A c \in Conns :
        (Replied(req[c]) /\ req[c].outcome = "insufficient_balance") =>
            /\ req[c].provider_calls = 1
            /\ req[c].mock_calls = 0
            /\ req[c].result = [text |-> BalanceText, origin |-> "ProviderTerminal"]
            /\ req[c].pc = "done" =>
                  /\ req[c].resp.status = 200
                  /\ req[c].resp.kind = "ai_response"
                  /\ req[c].resp.content = BalanceText

\* a turn has been answered with the insufficient-balance message
C17_Witness ==
    \E c \in Conns :
        /\ Replied(req[c])
        /\ req[c].pc = "done"
        /\ req[c].outcome = "insufficient_balance"
        /\ req[c].resp.content = BalanceText

\* C15: sending never throws: when the provider answers every attempt with
\* HTTP 429 until the retries are used up, the send returns a degraded
\* result as a value and raises no exception to its caller.
C15_ExhaustedRetriesReturn ==
    \A c \in Conns :
        ( /\ req[c].route = "generate_async"
          /\ req[c].pc = "done"
          /\ req[c].outcome = "http_429"
          /\ req[c].retries > max_retries )
        => /\ req[c].raised = "none"
           /\ req[c].result.origin = "Degraded"

\* the provider failures that are not terminal: a timeout or transport error,
\* HTTP 429, another non-2xx status, a malformed body
TransientOutcomes == {"exception", "http_429", "http_500", "malformed"}

\* the turn has returned a reply to the user
Answered(r) ==
    /\ TurnRoute(r)
    /\ r.pc = "done"
    /\ r.resp.status = 200
    /\ r.resp.kind = "ai_response"

\* the reply is the one mock_llm_response made
MockReply(r) ==
    /\ r.mock_calls = 1
    /\ r.result.origin = "Degraded"
    /\ r.resp.content = r.result.text

\* C18: every message turn that passed admission, validation, the ownership
\* check and the profile gate eventually returns a reply, whatever the
\* provider does; after a transient provider failure the reply is the one
\* of mock_llm_response, never an error response.
C18_TurnIsAnswered ==
    \A c \in Conns :
        /\ (TurnRoute(req[c]) /\ req[c].pc = "llm_response") ~> Answered(req[c])
        /\ []( ( /\ TurnRoute(req[c])
                 /\ req[c].pc = "done"
                 /\ req[c].outcome \in TransientOutcomes )
               => (Answered(req[c]) /\ MockReply(req[c])) )

\* a turn whose provider request timed out has been answered with the mock
\* reply
C18_Witness ==
    \E c \in Conns :
        /\ Answered(req[c])
        /\ req[c].gate = "COMPLETE"
        /\ req[c].outcome = "exception"
        /\ MockReply(req[c])

\* C19: a storage failure at any store call of a message turn (session
\* lookup, USER append, profile read, ASSISTANT append) is not swallowed: the
\* response of the turn is a 500 error, never a success response.
C19_StorageFailureIs500 ==
    \A c \in Conns :
        (TurnRoute(req[c]) /\ req[c].pc = "done" /\ req[c].failed_call # "none")
        => req[c].resp.status = 500

\* the texts of the n most recently stored messages of a session
RecentContents(rows, session_uuid, n) ==
    LET sel == SelectRows(rows, session_uuid)
    IN {sel[i].content : i \in {j \in DOMAIN sel : j > Len(sel) - n}}

\* the history entries of a context: all but the system prompt and the
\* current message
HistoryEntries(ctx) == {ctx[i].content : i \in {j \in DOMAIN ctx : 1 < j /\ j < Len(ctx)}}

\* C20: for a session holding more than HistoryLimit stored messages, every
\* history entry of the context built for the turn is one of the
\* HistoryLimit most recently stored messages of the session; no older
\* message is included.
C20_ContextFromMostRecent ==
    \A c \in Conns :
        ( /\ TurnRoute(req[c])
          /\ req[c].pc = "post"
          /\ Len(SelectRows(chat_messages, req[c].session_id)) > HistoryLimit )
        => HistoryEntries(req[c].ctx)
              \subseteq RecentContents(chat_messages, req[c].session_id, HistoryLimit)

\* a turn whose context has just been assembled
ContextBuilt(r) == TurnRoute(r) /\ r.pc = "post"

\* C21: the context sequence built for a turn has length at most 2K+2 for
\* the window size K = HistoryLimit; the code keeps it within K+2 (the
\* system prompt, at most K history entries, the new message).
C21_ContextLength ==
    \A c \in Conns :
        ContextBuilt(req[c]) =>
            /\ Len(req[c].ctx) <= HistoryLimit + 2
            /\ Len(req[c].ctx) <= 2 * HistoryLimit + 2

\* a context with a full window of history has been built on a session
\* holding more messages than the window
C21_Witness ==
    \E c \in Conns :
        /\ ContextBuilt(req[c])
        /\ Len(SelectRows(chat_messages, req[c].session_id)) > HistoryLimit
        /\ Len(req[c].ctx) = HistoryLimit + 2

\* s is t with some elements left out, the others in the same order
RECURSIVE IsSubsequence(_, _)
IsSubsequence(s, t) ==
    IF s = <<>> THEN TRUE
    ELSE IF t = <<>> THEN FALSE
    ELSE IF Head(s) = Head(t) THEN IsSubsequence(Tail(s), Tail(t))
    ELSE IsSubsequence(s, Tail(t))

\* the history part of a context: all but its first and its last entry
HistoryPart(ctx) == SubSeq(ctx, 2, Len(ctx) - 1)

\* an entry as the context would hold the stored message
EntryOf(msg) ==
    [role |-> IF msg.is_user THEN "user" ELSE "assistant",
     content |-> msg.content, origin |-> msg.origin]

\* C22: the context has the shape [system prompt] + history + [new user
\* message]: the first entry is the only system entry, the last entry is a
\* user entry with the new message, and the history entries in between are
\* in ascending chronological order, the relative order in which the listing
\* of the session's messages returns them.
C22_ContextShape ==
    \A c \in Conns :
        ContextBuilt(req[c]) =>
            LET ctx == req[c].ctx IN
            /\ Len(ctx) >= 2
            /\ \A i \in DOMAIN ctx : (ctx[i].role = "system") <=> (i = 1)
            /\ ctx[Len(ctx)].role = "user"
            /\ ctx[Len(ctx)].content = req[c].user_message
            /\ \E listed \in get_messages_by_session(chat_messages, req[c].session_id, 0) :
                  IsSubsequence(HistoryPart(ctx), [i \in DOMAIN listed |-> EntryOf(listed[i])])

\* a context with several history entries, user and assistant ones, has
\* been built
C22_Witness ==
    \E c \in Conns :
        /\ ContextBuilt(req[c])
        /\ Len(HistoryPart(req[c].ctx)) >= 3
        /\ \E i, j \in DOMAIN HistoryPart(req[c].ctx) :
              /\ HistoryPart(req[c].ctx)[i].role = "user"
              /\ HistoryPart(req[c].ctx)[j].role = "assistant"

\* the key of a message for de-duplication: the first 50 characters of its
\* trimmed content
DedupKey(content) == Take(Strip(content), 50)

\* C23: the history part of the context is de-duplicated: no two history
\* entries have the same first 50 characters of trimmed content.
C23_HistoryDeduplicated ==
    \A c \in Conns :
        ContextBuilt(req[c]) =>
            LET history == HistoryPart(req[c].ctx) IN
            \A i, j \in DOMAIN history :
                i # j => DedupKey(history[i].content) # DedupKey(history[j].content)

\* the entries of a context that are the new message: user entries whose
\* trimmed content is the trimmed new message
NewMessageAt(r) ==
    {i \in DOMAIN r.ctx : /\ r.ctx[i].role = "user"
                          /\ Strip(r.ctx[i].content) = Strip(r.user_message)}

\* C24: the just-submitted message is sent once: with the USER message of
\* the turn already stored when the context is assembled, no history entry
\* is a USER message whose trimmed content equals the trimmed new message;
\* the new message occurs in the context exactly once, as the final entry.
C24_NewMessageOnce ==
    \A c \in Conns :
        ContextBuilt(req[c]) =>
            /\ \E i \in DOMAIN chat_messages :
                  /\ chat_messages[i].session_uuid = req[c].session_id
                  /\ chat_messages[i].is_user
                  /\ chat_messages[i].content = req[c].user_message
            /\ NewMessageAt(req[c]) = {Len(req[c].ctx)}

\* a context has been built while the session held, besides the message of
\* the turn, an earlier USER message with the same trimmed content written
\* differently, and other history
C24_Witness ==
    \E c \in Conns :
        /\ ContextBuilt(req[c])
        /\ Len(HistoryPart(req[c].ctx)) >= 1
        /\ \E i \in DOMAIN chat_messages :
              /\ chat_messages[i].session_uuid = req[c].session_id
              /\ chat_messages[i].is_user
              /\ chat_messages[i].content # req[c].user_message
              /\ Strip(chat_messages[i].content) = Strip(req[c].user_message)

\* a send that went to sleep before a retry
Waited(r) == r.route = "generate_async" /\ r.pc = "make_request" /\ r.retries >= 1

\* C25: the wait before the n-th retry after a 429 is the Retry-After value
\* whenever the response carries a Retry-After header with a number (the
\* value 0 included), and retry_delay * 2^(n-1) without the header; after a
\* transport error or timeout it is retry_delay * 2^(n-1).
C25_WaitBeforeRetry ==
    \A c \in Conns :
        Waited(req[c]) =>
            LET r == req[c] IN
            /\ (r.outcome = "http_429" /\ IsDigits(r.header)) => r.delay = ParseInt(r.header)
            /\ (r.outcome = "http_429" /\ r.header = <<>>)
                  => r.delay = retry_delay * Pow2(r.retries - 1)
            /\ r.outcome = "exception" => r.delay = retry_delay * Pow2(r.retries - 1)

\* the answers after which _make_request asks again
AsksAgain(r) ==
    \/ r.outcome = "exception"
    \/ r.outcome = "http_429" /\ r.raised # "AttributeError"

Arrives(c) == req[c].pc \in {"idle", "done"} /\ req'[c] # req[c]

\* C27: the limiter keeps one counter per (client, route class): the
\* admission check of a request never changes the counter that the same
\* client's requests of another route class are compared against.
C27_CounterPerClass ==
    [][\A c \in Conns :
          (Arrives(c) /\ IsApiPath(req'[c].path)) =>
             \A q \in RatePaths :
                ( /\ IsApiPath(q)
                  /\ RouteClass(q) # RouteClass(req'[c].path) )
                => rate_limit_storage'[rate_limit_key(req'[c].ip, q)]
                      = rate_limit_storage[rate_limit_key(req'[c].ip, q)]]_vars

\* C28: a request of an allow-listed client is always admitted, whatever
\* the counts of the buckets, and leaves the rate-limit bucket map unchanged:
\* no bucket is created, reset or incremented.
C28_WhitelistBypasses ==
    [][\A c \in Conns :
          (Arrives(c) /\ req'[c].ip \in whitelist) =>
              /\ ~req'[c].rate_limited
              /\ req'[c].pc = req'[c].route
              /\ req'[c].resp = NoResp
              /\ UNCHANGED rate_limit_storage]_vars

\* an API request of the local client has been admitted while a bucket of
\* this minute stands above the login threshold, and the local client has
\* no bucket
C28_Witness ==
    \E c \in Conns :
        /\ req[c].ip \in whitelist
        /\ IsApiPath(req[c].path)
        /\ req[c].pc = req[c].route
        /\ \E k \in DOMAIN rate_limit_storage :
              /\ rate_limit_storage[k].present
              /\ rate_limit_storage[k].time = current_minute(now)
              /\ rate_limit_storage[k].count > login_rate
        /\ \A seg \in Segments : ~rate_limit_storage[<<req[c].ip, seg>>].present

\* connection c takes the cache step of a read in this step
ReadsCache(c) == req[c].pc = "get_chat" /\ req'[c] # req[c]

\* C29: a cache entry created at time t is served only at times strictly
\* before t + 300 seconds; a later read misses the cache and reads the
\* session from the store again; a read that hits the cache does not extend
\* the expiry of the entry.
C29_EntryLivesTtl ==
    [][\A c \in Conns :
          ReadsCache(c) =>
             LET sid == req[c].session_id
                 entry == chat_cache[sid]
                 stored == chat_sessions[sid]
             IN
             /\ req'[c].from_cache =>
                   /\ entry.cached
                   /\ now < entry.filled_at + 300
                   /\ req'[c].chat = entry.dict
                   /\ cache_expiry'[sid] = cache_expiry[sid]
                   /\ chat_cache'[sid] = entry
             /\ (entry.cached /\ now >= entry.filled_at + 300) =>
                   /\ ~req'[c].from_cache
                   /\ stored.exists =>
                         /\ req'[c].chat = SessionToDict(sid, stored)
                         /\ chat_cache'[sid].filled_at = now
                         /\ cache_expiry'[sid].at = now + 300]_vars

\* a read made 300 seconds or more after the entry was created has found
\* it expired and has taken the session from the store again
C29_Witness ==
    \E c \in Conns :
        /\ req[c].route = "get_chat"
        /\ req[c].pc = "get_chat_messages"
        /\ req[c].cache_expired
        /\ ~req[c].from_cache
        /\ chat_cache[req[c].session_id].filled_at = now
        /\ now >= 300

\* a turn under way on session s
TurnUnderWay(r, s) == TurnRoute(r) /\ r.pc \in MidTurn /\ r.session_id = s

\* the context holds no reply: no assistant entry
NoReplyIn(ctx) == \A i \in DOMAIN ctx : ctx[i].role # "assistant"

\* C30: two concurrent message turns on the same session are not
\* serialized: while one turn is under way, the USER append and the history
\* read of another turn on the same session can be taken at once; so both
\* turns can build their context from the same snapshot and both append.
C30_TurnsNotSerialized ==
    \A c, d \in TwoConns :
        ( /\ DOMAIN req = TwoConns
          /\ c # d
          /\ TurnUnderWay(req[d], req[c].session_id)
          /\ TurnRoute(req[c]) )
        => /\ ( /\ req[c].pc = "store_user_message"
                /\ AppendedRows(chat_messages) < MaxMessages )
              => ENABLED store_user_message(c, TRUE)
           /\ req[c].pc = "llm_response" => ENABLED llm_response(c, TRUE)

\* both turns have been answered, neither context contains a reply, both
\* replies are stored, and the session holds USER, USER, ASSISTANT,
\* ASSISTANT
C30_Witness ==
    /\ DOMAIN req = TwoConns
    /\ \A c \in TwoConns :
          /\ TurnRoute(req[c])
          /\ req[c].pc = "done"
          /\ req[c].session_id = 1
          /\ req[c].ai_stored
          /\ NoReplyIn(req[c].ctx)
    /\ LET sel == SelectRows(chat_messages, 1)
       IN /\ Len(sel) = 4
          /\ sel[1].is_user /\ sel[2].is_user /\ ~sel[3].is_user /\ ~sel[4].is_user

\* C31: mock_llm_response and the context assembly share one filtering
\* rule: for the stored history and the new message of a turn, the history
\* messages the mock reply renders are, in set and order, the ones the
\* provider context holds.
C31_MockRendersContextHistory ==
    \A c \in Conns :
        (TurnRoute(req[c]) /\ req[c].pc = "mock_llm_response") =>
            \A messages \in get_messages_by_session(chat_messages, req[c].session_id,
                                                    HistoryLimit) :
                LET rendered == MockRendered(messages, req[c].user_message)
                IN [i \in DOMAIN rendered |-> EntryOf(rendered[i])]
                     = HistoryPart(BuildContext(req[c].user_message, req[c].user_data,
                                                messages))

\* a request that submits a message
SubmitRoute(r) == r.route \in {"add_chat_message", "create_message"}

\* C32: a message turn rejected for validation (400) or for an unknown
\* session (404) leaves the store unchanged: no session is created, no
\* message is appended, and no provider call is made; the rejection is the
\* first thing the handler does.
C32_RejectedTurnChangesNothing ==
    [][\A c \in Conns :
          ( /\ req'[c] # req[c]
            /\ SubmitRoute(req'[c])
            /\ req'[c].pc = "done"
            /\ req'[c].resp.status \in {400, 404} )
          => /\ req[c].pc = req[c].route
             /\ UNCHANGED <<users, chat_sessions, chat_messages, uuid_counter>>
             /\ req'[c].provider_calls = 0
             /\ req'[c].mock_calls = 0
             /\ req'[c].ctx = <<>>]_vars

\* a turn on a session that does not exist has been refused with 404 while
\* the store holds a session with messages
C32_Witness ==
    \E c \in Conns :
        /\ req[c].route = "add_chat_message"
        /\ req[c].pc = "done"
        /\ req[c].resp.status = 404
        /\ ~chat_sessions[req[c].session_id].exists
        /\ chat_messages # <<>>

\* a finished composition
IsComposed(r) == r.pc = "composed"
\* the prompt holds the text somewhere
PromptHas(prompt, piece) ==
    \E i \in 1..Len(prompt) : \E j \in 1..Len(prompt[i]) : prompt[i][j] = piece
\* the age parses as a non-negative integer
AgeParses(age) == age.kind = "int" /\ age.n >= 0

\* C33: for every age that parses as a non-negative integer, 0 and the
\* current year included, the composer derives birthYear = currentYear - age
\* and ageTwentyYear = birthYear + 20, with the year of the composition as
\* currentYear, and renders both; for an unparseable age it derives neither.
C33_YearsDerived ==
    \A c \in Conns :
        LET r == req[c] IN
        (IsComposed(r) /\ r.composer \in {"llm_client", "ai"})
        => IF AgeParses(r.user_data.age)
           THEN /\ r.composed.birth_year = Year(r.current_year - r.user_data.age.n)
                /\ r.composed.year_at_20 = Year(r.current_year - r.user_data.age.n + 20)
                /\ PromptHas(r.composed.prompt, ToString(r.composed.birth_year.n))
                /\ PromptHas(r.composed.prompt, ToString(r.composed.year_at_20.n))
           ELSE r.composed.birth_year = NoYear /\ r.composed.year_at_20 = NoYear

\* the section a line of the prompt stands in: the last header at or above it
IsHeader(line) == Len(line) = 3 /\ line[1] = "## "
SectionOfLine(prompt, i) ==
    LET above == {k \in 1..i : IsHeader(prompt[k])}
    IN IF above = {} THEN "title"
       ELSE prompt[CHOOSE k \in above : \A m \in above : m <= k][3]
PlaceholderKinds(language) ==
    IF language = "zh"
    THEN {"name", "age", "birth_year", "year_at_20", "location_at_20",
          "important_people_at_20", "concerns_at_20", "dreams_at_20"}
    ELSE {"year_at_20", "location_at_20", "important_people_at_20",
          "concerns_at_20", "dreams_at_20"}
Placeholders(language) == {Placeholder(language, what) : what \in PlaceholderKinds(language)}
\* the line carries the label of the field
LabeledLine(line, language, key) == StartsWith(line, FieldLabel(language, key))
\* an absent or empty field has no labeled line above the guideline section
FieldOmitted(r, key) ==
    GetField(r.user_data.profile_data.entries, key) = ""
    => \A i \in 1..Len(r.composed.prompt) :
          LabeledLine(r.composed.prompt[i], r.language, key)
          => SectionOfLine(r.composed.prompt, i) = "guidelines"
\* placeholders stand in the guideline section only
PlaceholdersInGuidelinesOnly(r) ==
    \A i \in 1..Len(r.composed.prompt) :
        (\E j \in 1..Len(r.composed.prompt[i]) :
            r.composed.prompt[i][j] \in Placeholders(r.language))
        => SectionOfLine(r.composed.prompt, i) = "guidelines"

\* C34: for every profile and language, a known profile field that is absent
\* or empty produces no labeled line in the identity, occupation/education,
\* personal-life, mental-state, significant-events or background sections,
\* and a placeholder for an absent field appears only in the closing
\* role-play guideline section.
C34_AbsentFieldsOmitted ==
    \A c \in Conns :
        LET r == req[c] IN
        (IsComposed(r) /\ r.composer \in {"llm_client", "ai"})
        => /\ \A key \in KnownFields : FieldOmitted(r, key)
           /\ PlaceholdersInGuidelinesOnly(r)

\* the prompt shows the value ('' is part of every text)
ShowsValue(prompt, value) == value = "" \/ PromptHas(prompt, value)

\* C35: for a COMPLETE profile and language zh, the composed system prompt
\* contains the profile's name and the value of every entry of the profile's
\* fields mapping, whatever the entry's key: name 'Lee' with fields
\* {hobby: chess} yields a prompt containing 'Lee' and 'chess'.
C35_EveryFieldShown ==
    \A c \in Conns :
        LET r == req[c] IN
        ( /\ IsComposed(r)
          /\ r.composer \in {"llm_client", "create_system_prompt"}
          /\ r.language = "zh"
          /\ ProfileGate(r.user_data) = "COMPLETE" )
        => /\ PromptHas(r.composed.prompt, r.user_data.name)
           /\ \A e \in r.user_data.profile_data.entries :
                 ShowsValue(r.composed.prompt, e[2])

\* C36: no orphan messages: in every reachable state, under every
\* interleaving of a message turn with a delete, an admin delete or an
\* owner reset of its session, each stored message names a session that
\* exists in the store.
C36_NoOrphanMessages ==
    \A i \in DOMAIN chat_messages :
        chat_sessions[chat_messages[i].session_uuid].exists

\* a delete of the session has removed it from the store and has not
\* returned yet
DeleteReturning(s) ==
    \E c \in DOMAIN req : req[c].pc = "clear_chat_cache" /\ req[c].session_id = s

\* C37: every unexpired cache entry describes a session that still exists:
\* once a delete of the session, by whichever path, has returned, no read is
\* served that session from the cache.
C37_CacheOfLiveSessions ==
    \A s \in SessionIds :
        (CacheHit(s) /\ ~chat_sessions[s].exists) => DeleteReturning(s)

\* the threshold of a bucket: the rate of the paths that start with its segment
BucketRate(k) == RateOf(RouteClass(<<"api", k[2]>>))

\* C38: the limiter's read-reset-increment-compare runs without a suspension
\* point, so no increment is lost under any order of concurrent requests:
\* for each bucket and clock minute the number of requests that pass the
\* limiter never exceeds the threshold, and every passing request was counted.
C38_PassesWithinThreshold ==
    \A k \in Ips \X Segments :
        LET bucket == rate_limit_storage[k] IN
        bucket.present
        => /\ bucket.passed <= BucketRate(k)
           /\ bucket.passed <= bucket.count

\* a bucket has let its whole threshold through and has rejected a request,
\* while both connections were busy with a request counted in it
C38_Witness ==
    \E k \in Ips \X Segments :
        /\ rate_limit_storage[k].present
        /\ rate_limit_storage[k].passed = BucketRate(k)
        /\ rate_limit_storage[k].count > BucketRate(k)
        /\ \A c \in TwoConns :
              /\ req[c].pc \in {"other", "done"}
              /\ req[c].route = "other"
              /\ IsApiPath(req[c].path)
              /\ rate_limit_key(req[c].ip, req[c].path) = k
        /\ \E c \in TwoConns : req[c].pc = "other"
        /\ \E c \in TwoConns : req[c].rate_limited

\* the tables of the store that a turn can write
StoreUnchanged ==
    UNCHANGED <<users, chat_sessions, chat_messages, chat_cache, cache_expiry, uuid_counter>>
\* the step of connection c appends one USER row with the turn's message to
\* the turn's session, sets the session's updated_at and changes nothing else
AppendsUserMessageOnly(c) ==
    LET r == req[c] IN
    /\ Len(chat_messages') = Len(chat_messages) + 1
    /\ SubSeq(chat_messages', 1, Len(chat_messages)) = chat_messages
    /\ LET row == chat_messages'[Len(chat_messages')]
       IN /\ row.session_uuid = r.session_id
          /\ row.is_user
          /\ row.content = r.user_message
          /\ row.created_at = now
    /\ chat_sessions' = [chat_sessions EXCEPT ![r.session_id].updated_at = now]
    /\ UNCHANGED <<users, chat_cache, cache_expiry, uuid_counter>>

\* C39: the turn's USER message is appended before the profile gate is
\* evaluated: the gate is read in the step after the append, and a turn that
\* the gate short-circuits has added exactly one USER message to its session
\* and bumped the session's updated_at, and has changed nothing else in the
\* store.
C39_UserMessageBeforeGate ==
    [][\A c \in Conns :
          (TurnRoute(req[c]) /\ req'[c] # req[c] /\ req[c].pc \notin {"idle", "done"})
          => /\ req[c].pc = "add_chat_message"
                 => (StoreUnchanged \/ req'[c].resp.status = 403) /\ req'[c].gate = "none"
             /\ req[c].pc = "store_user_message"
                 => AppendsUserMessageOnly(c) /\ req'[c].gate = "none"
             /\ req'[c].resp.kind = "redirect"
                 => /\ req[c].pc = "read_user"
                    /\ req'[c].gate \in {"NO_PROFILE", "INCOMPLETE"}
                    /\ StoreUnchanged
                    /\ req'[c].provider_calls = 0
                    /\ req'[c].mock_calls = 0
                    /\ ~req'[c].ai_stored]_vars

\* a turn has been short-circuited by the gate, its USER message is the last
\* row of the store, and the session's updated_at is the time of that row,
\* later than the session's creation
C39_Witness ==
    \E c \in Conns :
        LET r == req[c] IN
        /\ TurnRoute(r)
        /\ r.pc = "done"
        /\ r.resp.kind = "redirect"
        /\ chat_messages # <<>>
        /\ LET row == chat_messages[Len(chat_messages)]
           IN /\ row.is_user
              /\ row.session_uuid = r.session_id
              /\ row.content = r.user_message
              /\ chat_sessions[r.session_id].updated_at = row.created_at
              /\ chat_sessions[r.session_id].created_at < row.created_at
        /\ \A i \in DOMAIN chat_messages : chat_messages[i].is_user

====
